---- MODULE Spec2Model ----
(***************************************************************************)
(* Verification model of 08_movie2manual: the JSON ingestion validators    *)
(* (utils/text_parser.py), the annotation validator (utils/coord_utils.py) *)
(* and the session operations of app.py that store their results.          *)
(*                                                                         *)
(* Python values are tagged records: k is the Python type.  bool is kept   *)
(* apart from int because isinstance(True, int) holds in Python while the  *)
(* value prints and serialises differently; nan is the float for which     *)
(* every comparison is false.  Numbers are exact rationals num/den.        *)
(***************************************************************************)
EXTENDS Integers, Sequences, FiniteSets, TLC

---------------------------------------------------------------------------
(* Python / JSON values *)

None == [k |-> "null"]
PyBool(b) == [k |-> "bool", b |-> b]
PyInt(n) == [k |-> "int", num |-> n, den |-> 1]
PyFloat(n, d) == [k |-> "float", num |-> n, den |-> d]
NaN == [k |-> "nan"]
PyStr(s) == [k |-> "str", s |-> s]
PyList(q) == [k |-> "list", items |-> q]
PyDict(f) == [k |-> "dict", f |-> f]

\* isinstance(v, int): bool is a subclass of int
isinstance_int(v) == v.k \in {"int", "bool"}

\* isinstance(v, (int, float))
isinstance_number(v) == v.k \in {"int", "bool", "float", "nan"}

isinstance_str(v) == v.k = "str"

isinstance_list(v) == v.k = "list"

isinstance_dict(v) == v.k = "dict"

\* numerator and denominator of a number (True is 1, False is 0)
Num(v) == IF v.k = "bool" THEN (IF v.b THEN 1 ELSE 0) ELSE v.num

Den(v) == IF v.k = "bool" THEN 1 ELSE v.den

\* a < b on Python numbers; any comparison with nan is False
PyLt(a, b) == /\ a.k # "nan"
              /\ b.k # "nan"
              /\ Num(a) * Den(b) < Num(b) * Den(a)

\* a == b on Python numbers (1 == True == 1.0)
PyNumEq(a, b) == /\ a.k # "nan"
                 /\ b.k # "nan"
                 /\ Num(a) * Den(b) = Num(b) * Den(a)

\* key in d
HasKey(d, key) == key \in DOMAIN d.f

\* d[key] = v on a dict
SetKey(d, key, v) ==
    PyDict([x \in (DOMAIN d.f) \cup {key} |-> IF x = key THEN v ELSE d.f[x]])

\* d.get(key): None when the key is missing
DictGet(d, key) == IF HasKey(d, key) THEN d.f[key] ELSE None

\* d.get(key, default)
DictGetOr(d, key, default) == IF HasKey(d, key) THEN d.f[key] ELSE default

RECURSIVE GCD(_, _)
GCD(a, b) == IF b = 0 THEN a ELSE GCD(b, a % b)

\* the number n/d (d > 0) in lowest terms, of Python type kind
Number(kind, n, d) ==
    LET g == GCD(IF n < 0 THEN -n ELSE n, d)
    IN [k |-> kind, num |-> n \div g, den |-> d \div g]

\* the type of a + b, a - b, a * b: float as soon as one operand is a float
ArithKind(a, b) == IF a.k = "float" \/ b.k = "float" THEN "float" ELSE "int"

PyAdd(a, b) ==
    Number(ArithKind(a, b), Num(a) * Den(b) + Num(b) * Den(a), Den(a) * Den(b))

PySub(a, b) ==
    Number(ArithKind(a, b), Num(a) * Den(b) - Num(b) * Den(a), Den(a) * Den(b))

PyMul(a, b) ==
    Number(ArithKind(a, b), Num(a) * Num(b), Den(a) * Den(b))

\* a / b for b > 0: true division always yields a float
PyDiv(a, b) == Number("float", Num(a) * Den(b), Den(a) * Num(b))

\* round(v): the nearest integer, a tie going to the even neighbour
round(v) ==
    LET lo == Num(v) \div Den(v)
        twice == 2 * (Num(v) % Den(v))
    IN IF twice < Den(v) THEN lo
       ELSE IF twice > Den(v) THEN lo + 1
       ELSE IF lo % 2 = 0 THEN lo ELSE lo + 1

\* int(v): truncation toward zero
int(v) ==
    IF Num(v) >= 0 THEN Num(v) \div Den(v) ELSE -((-Num(v)) \div Den(v))

---------------------------------------------------------------------------
(* str(v): the built-in string form used to coerce title / description *)

RECURSIVE FracDigits(_, _, _)
FracDigits(r, d, fuel) ==
    IF r = 0 \/ fuel = 0 THEN ""
    ELSE ToString((r * 10) \div d) \o FracDigits((r * 10) % d, d, fuel - 1)

Abs(n) == IF n < 0 THEN -n ELSE n

FloatRepr(v) ==
    LET a == Abs(v.num)
        whole == a \div v.den
        rest == a % v.den
    IN (IF v.num < 0 THEN "-" ELSE "") \o ToString(whole) \o "."
       \o (IF rest = 0 THEN "0" ELSE FracDigits(rest, v.den, 17))

RECURSIVE PyRepr(_)
RECURSIVE JoinRepr(_, _)
JoinRepr(q, i) ==
    IF i > Len(q) THEN ""
    ELSE (IF i > 1 THEN ", " ELSE "") \o PyRepr(q[i]) \o JoinRepr(q, i + 1)

\* repr(v); a dict is rendered for at most one key (key order is not modelled)
PyRepr(v) ==
    CASE v.k = "null" -> "None"
      [] v.k = "bool" -> (IF v.b THEN "True" ELSE "False")
      [] v.k = "int" -> ToString(v.num)
      [] v.k = "float" -> FloatRepr(v)
      [] v.k = "nan" -> "nan"
      [] v.k = "str" -> "'" \o v.s \o "'"
      [] v.k = "list" -> "[" \o JoinRepr(v.items, 1) \o "]"
      [] v.k = "dict" ->
           IF DOMAIN v.f = {} THEN "{}"
           ELSE LET key == CHOOSE x \in DOMAIN v.f : TRUE
                IN "{'" \o key \o "': " \o PyRepr(v.f[key]) \o "}"

\* str(v)
str(v) == IF v.k = "str" THEN v ELSE PyStr(PyRepr(v))

---------------------------------------------------------------------------
(* ValidationResult *)

\* a message of the result; step / ann are the 0-based indexes the text names
\* (-1 when the message names none)
Msg(code, idx, ann_idx) == [code |-> code, step |-> idx, ann |-> ann_idx]

\* ValidationResult(): raised names the exception when the call did not return
ValidationResult == [raised |-> "none", errors |-> <<>>, warnings |-> <<>>,
                     data |-> None]

\* the outcome of a call that raised exc instead of returning a result
Raise(exc) == [raised |-> exc, errors |-> <<>>, warnings |-> <<>>, data |-> None]

\* a validity flag that warnings also clear
is_valid_without_warnings(result) ==
    Len(result.errors) = 0 /\ Len(result.warnings) = 0

is_valid(result) == Len(result.errors) = 0

add_error(result, message) ==
    [result EXCEPT !.errors = Append(@, message)]

add_warning(result, message) ==
    [result EXCEPT !.warnings = Append(@, message)]

---------------------------------------------------------------------------
(* utils/text_parser.py: parse_json *)

\* A JSON text is modelled by what json.loads makes of it: ok = FALSE is a
\* text json.loads rejects with JSONDecodeError, ok = TRUE a text whose
\* decoded value is value.
BadText == [ok |-> FALSE, value |-> None]

Text(v) == [ok |-> TRUE, value |-> v]

parse_json(json_text) ==
    IF json_text.ok
    THEN [ValidationResult EXCEPT !.data = json_text.value]
    ELSE add_error(ValidationResult, Msg("json_syntax", -1, -1))

---------------------------------------------------------------------------
(* utils/text_parser.py: validate_gemini_json (Tier A) *)

\* the loop state: the result's message lists, seen_ids, validated_steps
LoopStart(result) == [errors |-> result.errors, warnings |-> result.warnings,
                      seen_ids |-> {}, validated_steps |-> <<>>]

\* continue without result.add_error(...)
RejectSilently(acc, code, idx) == acc

\* result.add_error(...) followed by continue
Reject(acc, code, idx) ==
    [acc EXCEPT !.errors = Append(@, Msg(code, idx, -1))]

\* a field handling that warns about a non-string value and leaves it
CoerceFieldWarnOnly(step, step_data, field, idx) ==
    IF HasKey(step, field)
    THEN IF ~isinstance_str(step.f[field])
         THEN [step_data |-> step_data,
               step_warnings |-> <<Msg(field \o "_not_string", idx, -1)>>]
         ELSE [step_data |-> step_data, step_warnings |-> <<>>]
    ELSE [step_data |-> SetKey(step_data, field, PyStr("")),
          step_warnings |-> <<>>]

\* title / description handling of one field (lines 145-159): the new
\* step_data and the step_warnings it appends
CoerceField(step, step_data, field, idx) ==
    IF HasKey(step, field)
    THEN IF ~isinstance_str(step.f[field])
         THEN [step_data |-> SetKey(step_data, field, str(step.f[field])),
               step_warnings |-> <<Msg(field \o "_not_string", idx, -1)>>]
         ELSE [step_data |-> step_data, step_warnings |-> <<>>]
    ELSE [step_data |-> SetKey(step_data, field, PyStr("")),
          step_warnings |-> <<>>]

\* a duration check that never warns
ExceedsWarningNever(warnings, timestamp, idx, video_duration) == warnings

\* lines 139-143: the warnings after the check against the video duration
ExceedsWarning(warnings, timestamp, idx, video_duration) ==
    IF video_duration # None /\ PyLt(video_duration, timestamp)
    THEN Append(warnings, Msg("timestamp_exceeds", idx, -1))
    ELSE warnings

\* an initialisation that empties the annotations of every step
InitAnnotationsAlways(step_data) ==
    SetKey(step_data, "annotations", PyList(<<>>))

\* lines 161-163: annotations of a step that has none
InitAnnotations(step_data) ==
    IF ~HasKey(step_data, "annotations")
    THEN SetKey(step_data, "annotations", PyList(<<>>))
    ELSE step_data

\* lines 165-168: the step warnings are added and the step is appended
AppendStep(acc, warnings, t, d) ==
    [acc EXCEPT !.warnings = warnings \o t.step_warnings \o d.step_warnings,
                !.validated_steps = Append(@, InitAnnotations(d.step_data))]

\* lines 153-159, after title made t of the step
AcceptWithTitle(acc, step, idx, warnings, t) ==
    AppendStep(acc, warnings, t,
               CoerceField(step, t.step_data, "description", idx))

\* the part of the loop body after the id and timestamp checks (lines 139-168)
AcceptStep(acc, step, idx, video_duration) ==
    AcceptWithTitle(acc, step, idx,
                    ExceedsWarning(acc.warnings, step.f["timestamp"], idx,
                                   video_duration),
                    CoerceField(step, step, "title", idx))

\* the timestamp checks (lines 125-137), entered after seen_ids.add(step_id)
CheckTimestamp(acc, step, idx, video_duration) ==
    IF ~HasKey(step, "timestamp")
    THEN Reject(acc, "timestamp_missing", idx)
    ELSE IF ~isinstance_number(step.f["timestamp"])
    THEN Reject(acc, "timestamp_not_number", idx)
    ELSE IF PyLt(step.f["timestamp"], PyInt(0))
    THEN Reject(acc, "timestamp_negative", idx)
    ELSE AcceptStep(acc, step, idx, video_duration)

\* one iteration of the loop over data["steps"] (lines 100-168)
GeminiStep(acc, step, idx, video_duration) ==
    IF ~isinstance_dict(step)
    THEN Reject(acc, "step_not_object", idx)
    ELSE IF ~HasKey(step, "id")
    THEN Reject(acc, "id_missing", idx)
    ELSE IF ~isinstance_int(step.f["id"]) \/ PyLt(step.f["id"], PyInt(1))
    THEN Reject(acc, "id_invalid", idx)
    ELSE IF Num(step.f["id"]) \in acc.seen_ids
    THEN Reject(acc, "id_duplicate", idx)
    ELSE CheckTimestamp([acc EXCEPT !.seen_ids = @ \cup {Num(step.f["id"])}],
                        step, idx, video_duration)

RECURSIVE GeminiLoop(_, _, _, _)
GeminiLoop(acc, steps, i, video_duration) ==
    IF i > Len(steps) THEN acc
    ELSE GeminiLoop(GeminiStep(acc, steps[i], i - 1, video_duration),
                    steps, i + 1, video_duration)

\* lines 72-82: result.data = data.copy(), project_name and video_path defaults
GeminiHeader(data) ==
    LET r0 == [ValidationResult EXCEPT !.data = data]
        r1 == IF ~HasKey(data, "project_name")
                 \/ ~isinstance_str(data.f["project_name"])
              THEN [add_warning(r0, Msg("project_name_missing", -1, -1))
                      EXCEPT !.data = SetKey(r0.data, "project_name",
                                             PyStr("untitled project"))]
              ELSE r0
    IN IF ~HasKey(data, "video_path") \/ ~isinstance_str(data.f["video_path"])
       THEN [r1 EXCEPT !.data = SetKey(r1.data, "video_path", PyStr(""))]
       ELSE r1

\* the exception data.copy() / "project_name" not in data / result.data[...]
\* ends in when data is not a dict (lines 73-78)
NotADictError(data) ==
    IF isinstance_list(data)
    THEN IF \E i \in 1..Len(data.items) : data.items[i] = PyStr("project_name")
         THEN "AttributeError"
         ELSE "TypeError"
    ELSE "AttributeError"

\* a stop that also stores an empty cleaned list
StopAtStepsCleared(result, code) ==
    [add_error(result, Msg(code, -1, -1))
       EXCEPT !.data = SetKey(result.data, "steps", PyList(<<>>))]

\* lines 84-91: result.add_error(...) followed by return result
StopAtSteps(result, code) == add_error(result, Msg(code, -1, -1))

\* line 170: the result with the messages and the cleaned steps of the loop
GeminiResult(result, acc) ==
    [result EXCEPT !.errors = acc.errors,
                   !.warnings = acc.warnings,
                   !.data = SetKey(result.data, "steps",
                                   PyList(acc.validated_steps))]

\* lines 93-170: the loop over a steps list
GeminiSteps(result, steps, video_duration) ==
    GeminiResult(result, GeminiLoop(LoopStart(result), steps, 1, video_duration))

\* lines 84-171, after the header made result of the data
GeminiBody(result, data, video_duration) ==
    IF ~HasKey(data, "steps")
    THEN StopAtSteps(result, "steps_missing")
    ELSE IF ~isinstance_list(data.f["steps"])
    THEN StopAtSteps(result, "steps_not_list")
    ELSE IF Len(data.f["steps"].items) = 0
    THEN GeminiSteps(add_warning(result, Msg("steps_empty", -1, -1)),
                     data.f["steps"].items, video_duration)
    ELSE GeminiSteps(result, data.f["steps"].items, video_duration)

validate_gemini_json(data, video_duration) ==
    IF ~isinstance_dict(data) THEN Raise(NotADictError(data))
    ELSE GeminiBody(GeminiHeader(data), data, video_duration)

---------------------------------------------------------------------------
(* utils/coord_utils.py: validate_rel_coords *)

VALID_ANNOTATION_TYPES == {"rect", "line", "polygon"}

\* isinstance(v, (list, tuple))
isinstance_sequence(v) == v.k \in {"list", "tuple"}

\* 0.0 <= value <= 1.0 on a number
InUnitRange(value) == /\ value.k # "nan"
                      /\ 0 <= Num(value)
                      /\ Num(value) <= Den(value)

\* a check without the upper end of the range
_is_valid_relative_value_unbounded(value) ==
    isinstance_number(value) /\ value.k # "nan" /\ 0 <= Num(value)

_is_valid_relative_value(value) ==
    isinstance_number(value) /\ InUnitRange(value)

\* (is_valid, error_message): the message is kept as its kind and the indexes
\* it names (-1 for none); code "" is the empty message
CoordsOk == [valid |-> TRUE, code |-> "", i |-> -1, j |-> -1]

CoordsBad(code, i, j) == [valid |-> FALSE, code |-> code, i |-> i, j |-> j]

\* a scan that reports the last failing element instead of the first
FlatScanLast(coords, i) ==
    LET failing == {k \in i..Len(coords) : ~_is_valid_relative_value(coords[k])}
        last == CHOOSE k \in failing : \A m \in failing : m <= k
    IN IF failing = {} THEN CoordsOk
       ELSE IF ~isinstance_number(coords[last])
       THEN CoordsBad("not_a_number", last - 1, -1)
       ELSE CoordsBad("out_of_range", last - 1, -1)

\* the first failing element of a flat coordinate list (lines 212-216)
RECURSIVE FlatScan(_, _)
FlatScan(coords, i) ==
    IF i > Len(coords) THEN CoordsOk
    ELSE IF ~isinstance_number(coords[i])
    THEN CoordsBad("not_a_number", i - 1, -1)
    ELSE IF ~_is_valid_relative_value(coords[i])
    THEN CoordsBad("out_of_range", i - 1, -1)
    ELSE FlatScan(coords, i + 1)

\* the checks of one polygon point (lines 228-238)
PointCheck(point, i) ==
    IF ~isinstance_sequence(point) THEN CoordsBad("point_not_sequence", i, -1)
    ELSE IF Len(point.items) # 2 THEN CoordsBad("point_not_pair", i, -1)
    ELSE LET r == FlatScan(point.items, 1)
         IN IF r.valid THEN CoordsOk
            ELSE CoordsBad("point_" \o r.code, i, r.i)

RECURSIVE PolygonScan(_, _)
PolygonScan(coords, i) ==
    IF i > Len(coords) THEN CoordsOk
    ELSE LET r == PointCheck(coords[i], i - 1)
         IN IF ~r.valid THEN r ELSE PolygonScan(coords, i + 1)

\* annotation_type is a string here (every caller passes one)
validate_rel_coords(annotation_type, coords) ==
    IF annotation_type \notin VALID_ANNOTATION_TYPES
    THEN CoordsBad("invalid_type", -1, -1)
    ELSE IF ~isinstance_sequence(coords)
    THEN CoordsBad("coords_not_sequence", -1, -1)
    ELSE IF annotation_type \in {"rect", "line"}
    THEN IF Len(coords.items) # 4
         THEN CoordsBad("needs_4_coordinates", -1, -1)
         ELSE FlatScan(coords.items, 1)
    ELSE IF Len(coords.items) < 3
         THEN CoordsBad("needs_3_points", -1, -1)
         ELSE PolygonScan(coords.items, 1)

---------------------------------------------------------------------------
(* utils/text_parser.py: validate_saved_json (Tier B) *)

\* _create_default_metadata(): now is the clock reading, as an ISO string
_create_default_metadata(now) ==
    PyDict([created_at |-> PyStr(now), modified_at |-> PyStr(now),
            app_version |-> PyStr("1.0.0")])

\* hash(v) raises TypeError for a list or a dict
Unhashable(v) == v.k \in {"list", "dict"}

\* ann_type in VALID_ANNOTATION_TYPES for a hashable ann_type
InValidTypes(ann_type) ==
    isinstance_str(ann_type) /\ ann_type.s \in VALID_ANNOTATION_TYPES

\* an iteration that keeps an annotation whatever its rel_coords are
AnnStepUnchecked(a, ann, idx, ann_idx) ==
    LET Skip(code) == [a EXCEPT !.warnings = Append(@, Msg(code, idx, ann_idx))]
    IN IF ~isinstance_dict(ann) THEN Skip("annotation_not_object")
       ELSE IF ~HasKey(ann, "type") THEN Skip("annotation_no_type")
       ELSE IF Unhashable(ann.f["type"]) THEN [a EXCEPT !.raised = "TypeError"]
       ELSE IF ~InValidTypes(ann.f["type"]) THEN Skip("annotation_bad_type")
       ELSE IF ann.f["type"].s = "polygon" THEN Skip("annotation_polygon")
       ELSE [a EXCEPT !.validated_annotations = Append(@, ann)]

\* an iteration that checks rel_coords before it looks for a polygon
AnnStepPolygonLast(a, ann, idx, ann_idx) ==
    LET Skip(code) == [a EXCEPT !.warnings = Append(@, Msg(code, idx, ann_idx))]
    IN IF ~isinstance_dict(ann) THEN Skip("annotation_not_object")
       ELSE IF ~HasKey(ann, "type") THEN Skip("annotation_no_type")
       ELSE IF Unhashable(ann.f["type"]) THEN [a EXCEPT !.raised = "TypeError"]
       ELSE IF ~InValidTypes(ann.f["type"]) THEN Skip("annotation_bad_type")
       ELSE IF ~HasKey(ann, "rel_coords") THEN Skip("annotation_no_rel_coords")
       ELSE IF ~validate_rel_coords(ann.f["type"].s, ann.f["rel_coords"]).valid
       THEN Skip("annotation_bad_rel_coords")
       ELSE IF ann.f["type"].s = "polygon" THEN Skip("annotation_polygon")
       ELSE [a EXCEPT !.validated_annotations = Append(@, ann)]

\* one iteration of the loop over step["annotations"] (lines 231-274);
\* a holds the warnings, validated_annotations and a pending exception
AnnStep(a, ann, idx, ann_idx) ==
    LET Skip(code) == [a EXCEPT !.warnings = Append(@, Msg(code, idx, ann_idx))]
    IN IF ~isinstance_dict(ann) THEN Skip("annotation_not_object")
       ELSE IF ~HasKey(ann, "type") THEN Skip("annotation_no_type")
       ELSE IF Unhashable(ann.f["type"]) THEN [a EXCEPT !.raised = "TypeError"]
       ELSE IF ~InValidTypes(ann.f["type"]) THEN Skip("annotation_bad_type")
       ELSE IF ann.f["type"].s = "polygon" THEN Skip("annotation_polygon")
       ELSE IF ~HasKey(ann, "rel_coords") THEN Skip("annotation_no_rel_coords")
       ELSE IF ~validate_rel_coords(ann.f["type"].s, ann.f["rel_coords"]).valid
       THEN Skip("annotation_bad_rel_coords")
       ELSE [a EXCEPT !.validated_annotations = Append(@, ann)]

RECURSIVE AnnLoop(_, _, _, _)
AnnLoop(a, anns, idx, i) ==
    IF i > Len(anns) \/ a.raised # "none" THEN a
    ELSE AnnLoop(AnnStep(a, anns[i], idx, i - 1), anns, idx, i + 1)

\* one iteration of the loop over result.data["steps"] (lines 218-276);
\* b holds the errors, warnings, the steps rewritten so far and a pending
\* exception
SavedStep(b, step, idx) ==
    IF ~HasKey(step, "annotations")
    THEN [b EXCEPT !.steps = Append(@, SetKey(step, "annotations", PyList(<<>>)))]
    ELSE IF ~isinstance_list(step.f["annotations"])
    THEN [b EXCEPT !.errors = Append(@, Msg("annotations_not_list", idx, -1)),
                   !.steps = Append(@, SetKey(step, "annotations", PyList(<<>>)))]
    ELSE LET a == AnnLoop([warnings |-> b.warnings,
                           validated_annotations |-> <<>>, raised |-> "none"],
                          step.f["annotations"].items, idx, 1)
         IN [b EXCEPT !.warnings = a.warnings,
                      !.raised = a.raised,
                      !.steps = Append(@, SetKey(step, "annotations",
                                          PyList(a.validated_annotations)))]

RECURSIVE SavedLoop(_, _, _)
SavedLoop(b, steps, i) ==
    IF i > Len(steps) \/ b.raised # "none" THEN b
    ELSE SavedLoop(SavedStep(b, steps[i], i - 1), steps, i + 1)

\* a video_info check that stores the value without judging it
SavedVideoInfoUnchecked(result, data) ==
    IF HasKey(data, "video_info")
    THEN [result EXCEPT !.data = SetKey(result.data, "video_info",
                                        data.f["video_info"])]
    ELSE [result EXCEPT !.data = SetKey(result.data, "video_info", None)]

\* lines 194-201
SavedVideoInfo(result, data) ==
    IF HasKey(data, "video_info")
    THEN LET video_info == data.f["video_info"]
             r == IF video_info # None /\ ~isinstance_dict(video_info)
                  THEN add_error(result, Msg("video_info_not_object", -1, -1))
                  ELSE result
         IN [r EXCEPT !.data = SetKey(r.data, "video_info", video_info)]
    ELSE [result EXCEPT !.data = SetKey(result.data, "video_info", None)]

\* lines 203-215
SavedMetadata(result, data, now) ==
    IF HasKey(data, "metadata")
    THEN IF ~isinstance_dict(data.f["metadata"])
         THEN [add_warning(result, Msg("metadata_not_object", -1, -1))
                 EXCEPT !.data = SetKey(result.data, "metadata",
                                        _create_default_metadata(now))]
         ELSE [result EXCEPT !.data = SetKey(result.data, "metadata",
                                             data.f["metadata"])]
    ELSE [result EXCEPT !.data = SetKey(result.data, "metadata",
                                        _create_default_metadata(now))]

\* line 278: the result with the messages and the steps of the loop
SavedResult(result, b) ==
    IF b.raised # "none" THEN Raise(b.raised)
    ELSE [result EXCEPT !.errors = b.errors,
                        !.warnings = b.warnings,
                        !.data = SetKey(result.data, "steps", PyList(b.steps))]

\* lines 217-278: the loop over result.data["steps"]
SavedSteps(result) ==
    SavedResult(result,
                SavedLoop([errors |-> result.errors,
                           warnings |-> result.warnings,
                           steps |-> <<>>, raised |-> "none"],
                          result.data.f["steps"].items, 1))

\* a Tier B that completes the payload of an invalid Tier A result
SavedBodyCompleting(result, data, now) ==
    IF result.raised # "none" THEN result
    ELSE IF ~is_valid(result)
    THEN SavedMetadata(SavedVideoInfo(result, data), data, now)
    ELSE SavedSteps(SavedMetadata(SavedVideoInfo(result, data), data, now))

\* lines 191-278, after Tier A made result of the data
SavedBody(result, data, now) ==
    IF result.raised # "none" THEN result
    ELSE IF ~is_valid(result) THEN result
    ELSE SavedSteps(SavedMetadata(SavedVideoInfo(result, data), data, now))

validate_saved_json(data, video_duration, now) ==
    SavedBody(validate_gemini_json(data, video_duration), data, now)

---------------------------------------------------------------------------
(* utils/text_parser.py: parse_and_validate *)

parse_and_validate(json_text, video_duration, is_saved_json, now) ==
    LET parse_result == parse_json(json_text)
    IN IF ~is_valid(parse_result) THEN parse_result
       ELSE IF is_saved_json
       THEN validate_saved_json(parse_result.data, video_duration, now)
       ELSE validate_gemini_json(parse_result.data, video_duration)

---------------------------------------------------------------------------
(* utils/coord_utils.py: pixel_to_relative *)

\* value / size for an integer size > 0; nan / size is nan
Ratio(value, size) ==
    IF value.k = "nan" THEN NaN ELSE PyDiv(value, PyInt(size))

\* a conversion that raises only when both dimensions are not positive
pixel_to_relative_lenient(x, y, canvas_width, canvas_height) ==
    IF canvas_width <= 0 /\ canvas_height <= 0
    THEN [raised |-> "ValueError", rx |-> None, ry |-> None]
    ELSE IF ~isinstance_number(x) \/ ~isinstance_number(y)
    THEN [raised |-> "TypeError", rx |-> None, ry |-> None]
    ELSE [raised |-> "none",
          rx |-> Ratio(x, IF canvas_width <= 0 THEN 1 ELSE canvas_width),
          ry |-> Ratio(y, IF canvas_height <= 0 THEN 1 ELSE canvas_height)]

\* (rx, ry), or the exception raised; widths and heights are integers
pixel_to_relative(x, y, canvas_width, canvas_height) ==
    IF canvas_width <= 0 \/ canvas_height <= 0
    THEN [raised |-> "ValueError", rx |-> None, ry |-> None]
    ELSE IF ~isinstance_number(x) \/ ~isinstance_number(y)
    THEN [raised |-> "TypeError", rx |-> None, ry |-> None]
    ELSE [raised |-> "none",
          rx |-> Ratio(x, canvas_width),
          ry |-> Ratio(y, canvas_height)]

---------------------------------------------------------------------------
(* utils/coord_utils.py: relative_to_pixel *)

\* a conversion that scales each coordinate by the other dimension
relative_to_pixel_transposed(rx, ry, video_width, video_height) ==
    IF video_width <= 0 \/ video_height <= 0
    THEN [raised |-> "ValueError", x |-> 0, y |-> 0]
    ELSE IF ~isinstance_number(rx) \/ ~isinstance_number(ry)
    THEN [raised |-> "TypeError", x |-> 0, y |-> 0]
    ELSE IF ~InUnitRange(rx) \/ ~InUnitRange(ry)
    THEN [raised |-> "ValueError", x |-> 0, y |-> 0]
    ELSE [raised |-> "none",
          x |-> round(PyMul(PyInt(video_height), rx)),
          y |-> round(PyMul(PyInt(video_width), ry))]

\* (x, y), or the exception raised; widths and heights are integers
relative_to_pixel(rx, ry, video_width, video_height) ==
    IF video_width <= 0 \/ video_height <= 0
    THEN [raised |-> "ValueError", x |-> 0, y |-> 0]
    ELSE IF ~isinstance_number(rx)
    THEN [raised |-> "TypeError", x |-> 0, y |-> 0]
    ELSE IF ~InUnitRange(rx)
    THEN [raised |-> "ValueError", x |-> 0, y |-> 0]
    ELSE IF ~isinstance_number(ry)
    THEN [raised |-> "TypeError", x |-> 0, y |-> 0]
    ELSE IF ~InUnitRange(ry)
    THEN [raised |-> "ValueError", x |-> 0, y |-> 0]
    ELSE [raised |-> "none",
          x |-> round(PyMul(PyInt(video_width), rx)),
          y |-> round(PyMul(PyInt(video_height), ry))]

---------------------------------------------------------------------------
(* utils/coord_utils.py: the conversions of four coordinates *)

\* value / size of Python for an integer size: ZeroDivisionError for a size
\* of 0, TypeError for a value that is not a number
Quotient(value, size) ==
    IF ~isinstance_number(value) THEN [raised |-> "TypeError", v |-> None]
    ELSE IF size = 0 THEN [raised |-> "ZeroDivisionError", v |-> None]
    ELSE IF value.k = "nan" THEN [raised |-> "none", v |-> NaN]
    ELSE [raised |-> "none",
          v |-> Number("float", IF size > 0 THEN Num(value) ELSE -Num(value),
                       Den(value) * (IF size > 0 THEN size ELSE -size))]

\* round(size * value) of Python: TypeError for a value that is not a number
\* (a str times an int is a str, which has no round), ValueError for nan
Rounded(value, size) ==
    IF ~isinstance_number(value) THEN [raised |-> "TypeError", v |-> 0]
    ELSE IF value.k = "nan" THEN [raised |-> "ValueError", v |-> 0]
    ELSE [raised |-> "none", v |-> round(PyMul(PyInt(size), value))]

\* the four results in the order the code computes them, or the exception of
\* the first that raises; One is Quotient or Rounded and sizes[i] the
\* dimension of coordinate i
RECURSIVE FourFrom(_, _, _, _, _)
FourFrom(One(_, _), coords, sizes, i, done) ==
    IF i > 4 THEN [raised |-> "none", coords |-> done]
    ELSE IF One(coords[i], sizes[i]).raised # "none"
    THEN [raised |-> One(coords[i], sizes[i]).raised, coords |-> <<>>]
    ELSE FourFrom(One, coords, sizes, i + 1,
                  Append(done, One(coords[i], sizes[i]).v))

\* lines 65-89
rect_to_relative(rect_coords, canvas_width, canvas_height) ==
    IF Len(rect_coords) # 4 THEN [raised |-> "ValueError", coords |-> <<>>]
    ELSE FourFrom(Quotient, rect_coords,
                  <<canvas_width, canvas_height, canvas_width, canvas_height>>,
                  1, <<>>)

\* lines 92-116
rect_to_pixel(rel_coords, video_width, video_height) ==
    IF Len(rel_coords) # 4 THEN [raised |-> "ValueError", coords |-> <<>>]
    ELSE FourFrom(Rounded, rel_coords,
                  <<video_width, video_height, video_width, video_height>>,
                  1, <<>>)

\* lines 119-143
arrow_to_relative(arrow_coords, canvas_width, canvas_height) ==
    IF Len(arrow_coords) # 4 THEN [raised |-> "ValueError", coords |-> <<>>]
    ELSE FourFrom(Quotient, arrow_coords,
                  <<canvas_width, canvas_height, canvas_width, canvas_height>>,
                  1, <<>>)

\* lines 146-170
arrow_to_pixel(rel_coords, video_width, video_height) ==
    IF Len(rel_coords) # 4 THEN [raised |-> "ValueError", coords |-> <<>>]
    ELSE FourFrom(Rounded, rel_coords,
                  <<video_width, video_height, video_width, video_height>>,
                  1, <<>>)

---------------------------------------------------------------------------
(* ui/canvas_component.py: CanvasAnnotation and CanvasComponent *)

DEFAULT_ANNOTATION_COLOR == "#FF0000"

DEFAULT_STROKE_WIDTH == 3

CANVAS_MIN_HEIGHT == 300

CanvasAnnotation(type, rel_coords, color, stroke_width) ==
    [type |-> type, rel_coords |-> rel_coords, color |-> color,
     stroke_width |-> stroke_width]

to_dict(annotation) ==
    PyDict([type |-> annotation.type, rel_coords |-> annotation.rel_coords,
            color |-> annotation.color,
            stroke_width |-> annotation.stroke_width])

from_dict(data) ==
    CanvasAnnotation(DictGetOr(data, "type", PyStr("rect")),
                     DictGetOr(data, "rel_coords", PyList(<<>>)),
                     DictGetOr(data, "color", PyStr(DEFAULT_ANNOTATION_COLOR)),
                     DictGetOr(data, "stroke_width", PyInt(DEFAULT_STROKE_WIDTH)))

\* the result of a conversion that returns None
NoObject == None

\* stroke and strokeWidth of a Fabric.js object, as the annotation keeps them
StrokeOf(obj) == DictGetOr(obj, "stroke", PyStr(DEFAULT_ANNOTATION_COLOR))

StrokeWidthOf(obj) ==
    PyInt(int(DictGetOr(obj, "strokeWidth", PyInt(DEFAULT_STROKE_WIDTH))))

\* lines 164-175: the annotation of valid coordinates, None for others
AnnotationOrNone(type, rel_coords, obj) ==
    IF ~validate_rel_coords(type, rel_coords).valid THEN NoObject
    ELSE CanvasAnnotation(PyStr(type), rel_coords, StrokeOf(obj),
                          StrokeWidthOf(obj))

\* lines 161-162: the corners of a rect
RectCorners(left, top, actual_width, actual_height, canvas_width, canvas_height) ==
    PyList(<<PyDiv(left, PyInt(canvas_width)),
             PyDiv(top, PyInt(canvas_height)),
             PyDiv(PyAdd(left, actual_width), PyInt(canvas_width)),
             PyDiv(PyAdd(top, actual_height), PyInt(canvas_height))>>)

\* the rect branch (lines 147-175)
FabricRect(obj, canvas_width, canvas_height) ==
    AnnotationOrNone(
      "rect",
      RectCorners(DictGetOr(obj, "left", PyInt(0)),
                  DictGetOr(obj, "top", PyInt(0)),
                  PyMul(DictGetOr(obj, "width", PyInt(0)),
                        DictGetOr(obj, "scaleX", PyInt(1))),
                  PyMul(DictGetOr(obj, "height", PyInt(0)),
                        DictGetOr(obj, "scaleY", PyInt(1))),
                  canvas_width, canvas_height),
      obj)

\* lines 187-195: the end points of a line
LineEnds(left, top, obj, canvas_width, canvas_height) ==
    PyList(<<PyDiv(PyAdd(left, DictGetOr(obj, "x1", PyInt(0))),
                   PyInt(canvas_width)),
             PyDiv(PyAdd(top, DictGetOr(obj, "y1", PyInt(0))),
                   PyInt(canvas_height)),
             PyDiv(PyAdd(left, DictGetOr(obj, "x2", PyInt(0))),
                   PyInt(canvas_width)),
             PyDiv(PyAdd(top, DictGetOr(obj, "y2", PyInt(0))),
                   PyInt(canvas_height))>>)

\* the line branch (lines 178-208)
FabricLine(obj, canvas_width, canvas_height) ==
    AnnotationOrNone(
      "line",
      LineEnds(DictGetOr(obj, "left", PyInt(0)), DictGetOr(obj, "top", PyInt(0)),
               obj, canvas_width, canvas_height),
      obj)

\* the points of the M and L commands of a path (lines 217-224)
RECURSIVE PathPoints(_, _, _, _)
PathPoints(path_data, i, canvas_width, canvas_height) ==
    IF i > Len(path_data) THEN <<>>
    ELSE LET cmd == path_data[i].items
             rest == PathPoints(path_data, i + 1, canvas_width, canvas_height)
         IN IF Len(cmd) >= 3 /\ cmd[1] \in {PyStr("M"), PyStr("L")}
            THEN <<PyList(<<PyDiv(cmd[2], PyInt(canvas_width)),
                            PyDiv(cmd[3], PyInt(canvas_height))>>)>> \o rest
            ELSE rest

\* lines 227-239: a polygon needs three points
PolygonOrNone(points, obj) ==
    IF Len(points) < 3 THEN NoObject
    ELSE AnnotationOrNone("polygon", PyList(points), obj)

\* the path branch (lines 211-239)
FabricPath(obj, canvas_width, canvas_height) ==
    IF Len(DictGetOr(obj, "path", PyList(<<>>)).items) = 0 THEN NoObject
    ELSE PolygonOrNone(PathPoints(DictGetOr(obj, "path", PyList(<<>>)).items, 1,
                                  canvas_width, canvas_height),
                       obj)

_fabric_to_relative(obj, canvas_width, canvas_height) ==
    LET obj_type == DictGetOr(obj, "type", PyStr(""))
    IN IF obj_type = PyStr("rect")
       THEN FabricRect(obj, canvas_width, canvas_height)
       ELSE IF obj_type = PyStr("line")
       THEN FabricLine(obj, canvas_width, canvas_height)
       ELSE IF obj_type = PyStr("path")
       THEN FabricPath(obj, canvas_width, canvas_height)
       ELSE NoObject

\* lines 397-402: a converted object is kept with the Fabric.js object it
\* came from
PushAnnotation(annotation, obj, rest) ==
    IF annotation = NoObject THEN rest
    ELSE <<SetKey(to_dict(annotation), "_fabric_obj", obj)>> \o rest

\* parse_canvas_result: json_data is None or the scene dict of the widget
RECURSIVE ParseObjects(_, _, _, _)
ParseObjects(objects, i, canvas_width, canvas_height) ==
    IF i > Len(objects) THEN <<>>
    ELSE PushAnnotation(
           _fabric_to_relative(objects[i], canvas_width, canvas_height),
           objects[i],
           ParseObjects(objects, i + 1, canvas_width, canvas_height))

\* not json_data: None and the empty dict are falsy
Falsy(json_data) == json_data = None \/ json_data = PyDict(<<>>)

parse_canvas_result(json_data, canvas_width, canvas_height) ==
    IF Falsy(json_data) \/ ~HasKey(json_data, "objects") THEN <<>>
    ELSE ParseObjects(json_data.f["objects"].items, 1, canvas_width,
                      canvas_height)


\* a conversion result: obj is None when the code returns None
Converted(obj) == [raised |-> "none", obj |-> obj]

Failed(exc) == [raised |-> exc, obj |-> None]

\* len(coords) raises TypeError for these values
NoLen(coords) == coords.k \in {"null", "bool", "int", "float", "nan"}

\* len(coords) of a str, a dict or a list
LenOf(coords) ==
    IF coords.k = "str" THEN Len(coords.s)
    ELSE IF coords.k = "dict" THEN Cardinality(DOMAIN coords.f)
    ELSE Len(coords.items)

\* coords[i - 1] of a str or a list
Item(coords, i) ==
    IF coords.k = "str" THEN PyStr(SubSeq(coords.s, i, i))
    ELSE coords.items[i]

\* relative_to_pixel(coords[i - 1], coords[i], ...): a dict has no key 0
PixelOfPair(coords, i, canvas_width, canvas_height) ==
    IF coords.k = "dict" THEN [raised |-> "KeyError", x |-> 0, y |-> 0]
    ELSE relative_to_pixel(Item(coords, i), Item(coords, i + 1),
                           canvas_width, canvas_height)

\* lines 267-282: the rect object of the two corners
RectObject(annotation, p1, p2) ==
    IF p1.raised # "none" THEN Failed(p1.raised)
    ELSE IF p2.raised # "none" THEN Failed(p2.raised)
    ELSE Converted(PyDict(
           [type |-> PyStr("rect"),
            left |-> PyInt(p1.x), top |-> PyInt(p1.y),
            width |-> PyInt(p2.x - p1.x),
            height |-> PyInt(p2.y - p1.y),
            fill |-> PyStr("rgba(0, 0, 0, 0)"),
            stroke |-> annotation.color,
            strokeWidth |-> annotation.stroke_width,
            scaleX |-> PyInt(1), scaleY |-> PyInt(1)]))

\* the rect branch (lines 264-282)
RectToFabric(annotation, canvas_width, canvas_height) ==
    IF NoLen(annotation.rel_coords) THEN Failed("TypeError")
    ELSE IF LenOf(annotation.rel_coords) # 4 THEN Converted(NoObject)
    ELSE RectObject(annotation,
                    PixelOfPair(annotation.rel_coords, 1, canvas_width,
                                canvas_height),
                    PixelOfPair(annotation.rel_coords, 3, canvas_width,
                                canvas_height))

\* lines 293-308: the line object around its centre
LineAround(annotation, p1, p2, center_x, center_y) ==
    Converted(PyDict(
      [type |-> PyStr("line"),
       left |-> center_x, top |-> center_y,
       x1 |-> PySub(PyInt(p1.x), center_x),
       y1 |-> PySub(PyInt(p1.y), center_y),
       x2 |-> PySub(PyInt(p2.x), center_x),
       y2 |-> PySub(PyInt(p2.y), center_y),
       originX |-> PyStr("center"),
       originY |-> PyStr("center"),
       stroke |-> annotation.color,
       strokeWidth |-> annotation.stroke_width]))

\* lines 288-308: the line object of the two end points
LineObject(annotation, p1, p2) ==
    IF p1.raised # "none" THEN Failed(p1.raised)
    ELSE IF p2.raised # "none" THEN Failed(p2.raised)
    ELSE LineAround(annotation, p1, p2,
                    PyDiv(PyInt(p1.x + p2.x), PyInt(2)),
                    PyDiv(PyInt(p1.y + p2.y), PyInt(2)))

\* the line branch (lines 285-308)
LineToFabric(annotation, canvas_width, canvas_height) ==
    IF NoLen(annotation.rel_coords) THEN Failed("TypeError")
    ELSE IF LenOf(annotation.rel_coords) # 4 THEN Converted(NoObject)
    ELSE LineObject(annotation,
                    PixelOfPair(annotation.rel_coords, 1, canvas_width,
                                canvas_height),
                    PixelOfPair(annotation.rel_coords, 3, canvas_width,
                                canvas_height))

\* lines 317-322: the command of point i put in front of the later ones
PushCommand(p, i, rest) ==
    IF p.raised # "none"
    THEN [raised |-> p.raised, cmds |-> <<>>, none |-> FALSE]
    ELSE IF rest.raised # "none" \/ rest.none THEN rest
    ELSE [rest EXCEPT !.cmds =
            <<PyList(<<PyStr(IF i = 1 THEN "M" ELSE "L"),
                       PyInt(p.x), PyInt(p.y)>>)>> \o @]

\* the path commands of the points from position i on (lines 317-322):
\* none tells that a point does not have 2 coordinates
RECURSIVE PathCommands(_, _, _, _)
PathCommands(coords, i, canvas_width, canvas_height) ==
    IF i > Len(coords) THEN [raised |-> "none", cmds |-> <<>>, none |-> FALSE]
    ELSE IF NoLen(coords[i])
    THEN [raised |-> "TypeError", cmds |-> <<>>, none |-> FALSE]
    ELSE IF LenOf(coords[i]) # 2
    THEN [raised |-> "none", cmds |-> <<>>, none |-> TRUE]
    ELSE PushCommand(PixelOfPair(coords[i], 1, canvas_width, canvas_height),
                     i,
                     PathCommands(coords, i + 1, canvas_width, canvas_height))

\* lines 324-335: the closed path of the commands
PathObject(annotation, r) ==
    IF r.raised # "none" THEN Failed(r.raised)
    ELSE IF r.none THEN Converted(NoObject)
    ELSE Converted(PyDict(
           [type |-> PyStr("path"),
            path |-> PyList(r.cmds \o
                      <<PyList(<<PyStr("L"), r.cmds[1].items[2],
                                 r.cmds[1].items[3]>>)>>),
            stroke |-> annotation.color,
            strokeWidth |-> annotation.stroke_width,
            fill |-> PyStr("rgba(0, 0, 0, 0)")]))

\* the polygon branch (lines 311-335)
PolygonToFabric(annotation, canvas_width, canvas_height) ==
    IF ~isinstance_list(annotation.rel_coords) THEN Converted(NoObject)
    ELSE IF Len(annotation.rel_coords.items) < 3 THEN Converted(NoObject)
    ELSE PathObject(annotation,
                    PathCommands(annotation.rel_coords.items, 1, canvas_width,
                                 canvas_height))

_relative_to_fabric(annotation, canvas_width, canvas_height) ==
    IF annotation.type = PyStr("rect")
    THEN RectToFabric(annotation, canvas_width, canvas_height)
    ELSE IF annotation.type = PyStr("line")
    THEN LineToFabric(annotation, canvas_width, canvas_height)
    ELSE IF annotation.type = PyStr("polygon")
    THEN PolygonToFabric(annotation, canvas_width, canvas_height)
    ELSE Converted(NoObject)

\* lines 360-368: the stored Fabric.js object wins over a conversion
FabricOf(ann_dict, canvas_width, canvas_height) ==
    IF DictGet(ann_dict, "_fabric_obj") # None
    THEN Converted(DictGet(ann_dict, "_fabric_obj"))
    ELSE _relative_to_fabric(from_dict(ann_dict), canvas_width, canvas_height)

\* the objects list with the object made of one annotation put in front
PushObject(made, rest) ==
    IF made.raised # "none" THEN [raised |-> made.raised, objects |-> <<>>]
    ELSE IF rest.raised # "none" THEN rest
    ELSE IF made.obj = NoObject THEN rest
    ELSE [rest EXCEPT !.objects = <<made.obj>> \o @]

\* the objects of create_initial_drawing from position i on (lines 358-368)
RECURSIVE DrawingObjects(_, _, _, _)
DrawingObjects(annotations, i, canvas_width, canvas_height) ==
    IF i > Len(annotations) THEN [raised |-> "none", objects |-> <<>>]
    ELSE IF ~isinstance_dict(annotations[i])
    THEN [raised |-> "AttributeError", objects |-> <<>>]
    ELSE PushObject(FabricOf(annotations[i], canvas_width, canvas_height),
                    DrawingObjects(annotations, i + 1, canvas_width,
                                   canvas_height))

\* lines 370-373: the scene dict of the converted objects
Scene(r) ==
    IF r.raised # "none" THEN Failed(r.raised)
    ELSE Converted(PyDict([version |-> PyStr("4.4.0"),
                           objects |-> PyList(r.objects)]))

\* the scene dict, or the exception a conversion raised
create_initial_drawing(annotations, canvas_width, canvas_height) ==
    Scene(DrawingObjects(annotations, 1, canvas_width, canvas_height))

---------------------------------------------------------------------------
(* ui/canvas_component.py: AnnotationCanvas.render *)

\* What render does with the session entries it reads and writes:
\* needs_reinit is st.session_state.get(reinit_key, True), cached is
\* st.session_state.get(cache_key), json_data is canvas_result.json_data of
\* the widget (None when the widget has no result).  The outcome holds the
\* returned annotations (None for "no change"), the new values of the two
\* session entries and the exception that ended the call, if any.
RenderOutcome(exc, annotations, reinit, cached) ==
    [raised |-> exc, annotations |-> annotations, reinit |-> reinit,
     cached |-> cached]

\* a reconciliation that takes a longer parsed list as it is
KeepOrReplace(current_annotations, new_annotations) ==
    IF Len(new_annotations) > Len(current_annotations.items)
    THEN PyList(new_annotations)
    ELSE current_annotations

\* lines 552-559: more annotations than stored ones means a new drawing
KeepOrAppend(current_annotations, new_annotations) ==
    IF Len(new_annotations) > Len(current_annotations.items)
    THEN PyList(current_annotations.items
                \o SubSeq(new_annotations, Len(current_annotations.items) + 1,
                          Len(new_annotations)))
    ELSE current_annotations

\* lines 541-561: the round-trip guard
Reconcile(current_annotations, json_data, canvas_width, canvas_height) ==
    IF Falsy(json_data) THEN None
    ELSE KeepOrAppend(current_annotations,
                      parse_canvas_result(json_data, canvas_width,
                                          canvas_height))

\* lines 490-561 once the initial drawing of the current annotations is
\* known: drawing is what create_initial_drawing makes of them
RenderCanvas(drawing, current_annotations, canvas_width, height, needs_reinit, cached, json_data) ==
    IF needs_reinit
    THEN IF drawing.raised # "none"
         THEN RenderOutcome(drawing.raised, None, needs_reinit, cached)
         ELSE RenderOutcome("none", current_annotations, FALSE, drawing.obj)
    ELSE IF cached = None /\ drawing.raised # "none"
    THEN RenderOutcome(drawing.raised, None, needs_reinit, cached)
    ELSE RenderOutcome("none",
                       Reconcile(current_annotations, json_data, canvas_width,
                                 height),
                       needs_reinit,
                       IF cached = None THEN drawing.obj ELSE cached)

\* lines 473-480: the canvas size
RenderSized(current_annotations, canvas_width, height, needs_reinit, cached, json_data) ==
    RenderCanvas(create_initial_drawing(current_annotations.items,
                                        canvas_width, height),
                 current_annotations, canvas_width, height, needs_reinit,
                 cached, json_data)

CanvasHeight(canvas_height) ==
    IF canvas_height < CANVAS_MIN_HEIGHT THEN CANVAS_MIN_HEIGHT
    ELSE canvas_height

CanvasWidth(background_image, height) ==
    int(PyMul(PyInt(height),
              PyDiv(PyInt(background_image[1]), PyInt(background_image[2]))))

\* background_image is None or its <<width, height>>
render(background_image, current_annotations, preview_mode, canvas_height, needs_reinit, cached, json_data) ==
    IF preview_mode \/ background_image = None
    THEN RenderOutcome("none", None, needs_reinit, cached)
    ELSE RenderSized(current_annotations,
                     CanvasWidth(background_image, CanvasHeight(canvas_height)),
                     CanvasHeight(canvas_height), needs_reinit, cached,
                     json_data)

---------------------------------------------------------------------------
(* utils/text_parser.py: validate_all_timestamps *)

\* a scan that also reports a timestamp equal to the duration
RECURSIVE ExceededOrReachedFrom(_, _, _)
ExceededOrReachedFrom(steps, i, duration) ==
    IF i > Len(steps) THEN <<>>
    ELSE LET step == steps[i]
             rest == ExceededOrReachedFrom(steps, i + 1, duration)
         IN IF ~isinstance_dict(step) THEN rest
            ELSE IF DictGet(step, "id") = None \/ DictGet(step, "timestamp") = None
            THEN rest
            ELSE IF isinstance_number(step.f["timestamp"])
                    /\ ~PyLt(step.f["timestamp"], duration)
            THEN <<step.f["id"]>> \o rest
            ELSE rest

RECURSIVE ExceededFrom(_, _, _)
ExceededFrom(steps, i, duration) ==
    IF i > Len(steps) THEN <<>>
    ELSE LET step == steps[i]
             rest == ExceededFrom(steps, i + 1, duration)
         IN IF ~isinstance_dict(step) THEN rest
            ELSE IF DictGet(step, "id") = None \/ DictGet(step, "timestamp") = None
            THEN rest
            ELSE IF isinstance_number(step.f["timestamp"])
                    /\ PyLt(duration, step.f["timestamp"])
            THEN <<step.f["id"]>> \o rest
            ELSE rest

validate_all_timestamps(steps, duration) == ExceededFrom(steps, 1, duration)

---------------------------------------------------------------------------
(* app.py: the session *)

(* A world w is st.session_state (w.ss) together with the step objects its  *)
(* entries refer to (w.h, object id -> step dict): steps is a list of       *)
(* object ids and steps_by_id maps the id key of a step to an object id, so *)
(* that a step mutated in place is seen through both.  The entries          *)
(* uploaded_video_name, uploaded_json_name and last_import_result are not   *)
(* kept: they are only displayed or used to skip an upload already handled. *)

DEFAULT_PROJECT_NAME == "untitled project"

\* no index: the radio has no stored selection, no _pending_step_index is set
NoIndex == -1

\* get_initial_session_state() and init_session_state(); an entry that is
\* not set yet holds the default its readers pass to .get()
InitialSession ==
    [project_name |-> PyStr(DEFAULT_PROJECT_NAME),
     video_path |-> PyStr(""),
     video_info |-> None,
     steps |-> <<>>,
     steps_by_id |-> [x \in {} |-> 0],
     preview_mode |-> TRUE,
     current_step_id |-> None,
     temp_video_path |-> None,
     exceeded_step_ids |-> <<>>,
     canvas_reinit |-> [x \in {} |-> TRUE],
     canvas_cached_drawing |-> [x \in {} |-> None],
     editor_preview_pending |-> FALSE,
     step_selector |-> NoIndex]

MapSet(f, key, v) ==
    [x \in (DOMAIN f) \cup {key} |-> IF x = key THEN v ELSE f[x]]

MapGet(f, key, default) == IF key \in DOMAIN f THEN f[key] ELSE default

\* the text of {step_id} in an f-string key
KeyOf(step_id) == str(step_id).s

\* the step dicts of the steps list, in order
StepValues(w) == [i \in DOMAIN w.ss.steps |-> w.h[w.ss.steps[i]]]

\* the keys step["id"] of the steps of the list
SessionKeys(w) == {Num(w.h[w.ss.steps[i]].f["id"]) : i \in DOMAIN w.ss.steps}

\* an object id no live object has
NewOid(h) == CHOOSE o \in 1..(Cardinality(DOMAIN h) + 1) : o \notin DOMAIN h

\* steps_by_id.update(...) in place of the assignment of a new dict
rebuild_steps_by_id_in_place(w) ==
    [w EXCEPT !.ss.steps_by_id =
        [key \in DOMAIN @ \cup SessionKeys(w) |->
           IF key \in SessionKeys(w)
           THEN w.ss.steps[CHOOSE i \in DOMAIN w.ss.steps :
                             /\ Num(w.h[w.ss.steps[i]].f["id"]) = key
                             /\ \A j \in DOMAIN w.ss.steps :
                                  Num(w.h[w.ss.steps[j]].f["id"]) = key => j <= i]
           ELSE @[key]]]

rebuild_steps_by_id(w) ==
    LET seq == w.ss.steps
        KeyAt(i) == Num(w.h[seq[i]].f["id"])
        keys == {KeyAt(i) : i \in DOMAIN seq}
        Last(key) == CHOOSE i \in DOMAIN seq :
                       /\ KeyAt(i) = key
                       /\ \A j \in DOMAIN seq : KeyAt(j) = key => j <= i
    IN [w EXCEPT !.ss.steps_by_id = [key \in keys |-> seq[Last(key)]]]

\* max(step["id"] for step in steps): the first of the largest ids
RECURSIVE MaxId(_, _, _)
MaxId(values, i, best) ==
    IF i > Len(values) THEN best
    ELSE MaxId(values, i + 1,
               IF PyLt(best, values[i].f["id"]) THEN values[i].f["id"] ELSE best)

\* a count of the steps in place of their largest id
get_next_step_id_by_count(w) == PyInt(Len(w.ss.steps) + 1)

get_next_step_id(w) ==
    IF Len(w.ss.steps) = 0 THEN PyInt(1)
    ELSE PyAdd(MaxId(StepValues(w), 2, StepValues(w)[1].f["id"]), PyInt(1))

\* bool(v) of a dict or None
Truthy(v) == v # None /\ v # PyDict(<<>>)

validate_timestamps_after_upload(w) ==
    IF Truthy(w.ss.video_info) /\ Len(w.ss.steps) > 0
    THEN [w EXCEPT !.ss.exceeded_step_ids =
            validate_all_timestamps(StepValues(w), w.ss.video_info.f["duration"])]
    ELSE w

\* lines 197-198: the reinit flag of every imported step
RECURSIVE SetReinitFlags(_, _, _)
SetReinitFlags(flags, values, i) ==
    IF i > Len(values) THEN flags
    ELSE SetReinitFlags(MapSet(flags, KeyOf(values[i].f["id"]), TRUE),
                        values, i + 1)

\* bool(video_duration): None and 0 are falsy
DurationTruthy(video_duration) ==
    video_duration # None /\ ~PyNumEq(video_duration, PyInt(0))

\* lines 186-206: the session after a valid import of new_steps
Imported(w, project_name, new_steps, video_duration) ==
    IF DurationTruthy(video_duration)
    THEN validate_timestamps_after_upload(
           [rebuild_steps_by_id([w EXCEPT !.ss.project_name = project_name,
                                          !.ss.steps = [i \in DOMAIN new_steps |-> i],
                                          !.h = new_steps])
              EXCEPT !.ss.canvas_reinit = SetReinitFlags(@, new_steps, 1),
                     !.ss.editor_preview_pending = TRUE])
    ELSE [rebuild_steps_by_id([w EXCEPT !.ss.project_name = project_name,
                                        !.ss.steps = [i \in DOMAIN new_steps |-> i],
                                        !.h = new_steps])
            EXCEPT !.ss.canvas_reinit = SetReinitFlags(@, new_steps, 1),
                   !.ss.editor_preview_pending = TRUE]

\* the import without the test of is_valid
ImportResultUnguarded(w, video_duration, result) ==
    IF result.raised # "none"
    THEN [raised |-> result.raised, w |-> w, result |-> result]
    ELSE IF Truthy(result.data)
    THEN [raised |-> "none",
          w |-> Imported(w,
                         DictGetOr(result.data, "project_name",
                                   PyStr(DEFAULT_PROJECT_NAME)),
                         DictGetOr(result.data, "steps", PyList(<<>>)).items,
                         video_duration),
          result |-> result]
    ELSE [raised |-> "none", w |-> w, result |-> result]

\* lines 186-208: what import_json_data does with the validation result
ImportResult(w, video_duration, result) ==
    IF result.raised # "none"
    THEN [raised |-> result.raised, w |-> w, result |-> result]
    ELSE IF is_valid(result) /\ Truthy(result.data)
    THEN [raised |-> "none",
          w |-> Imported(w,
                         DictGetOr(result.data, "project_name",
                                   PyStr(DEFAULT_PROJECT_NAME)),
                         DictGetOr(result.data, "steps", PyList(<<>>)).items,
                         video_duration),
          result |-> result]
    ELSE [raised |-> "none", w |-> w, result |-> result]

\* lines 181-184: the duration of the loaded video, None without a video
VideoDuration(w) ==
    IF Truthy(w.ss.video_info) THEN w.ss.video_info.f["duration"] ELSE None

\* import_json_data: the world it leaves, the result it returns and the
\* exception that escaped it, if any
import_json_data(w, json_text, is_saved_json, now) ==
    ImportResult(w, VideoDuration(w),
                 parse_and_validate(json_text, VideoDuration(w), is_saved_json,
                                    now))

---------------------------------------------------------------------------
(* app.py: render_tab_editor, one script run of the editor tab *)

\* lines 484-500: the index the radio returns; a stored selection that is
\* no longer an option falls back to the default index
SelectedIndex(w, pending) ==
    IF pending # NoIndex /\ pending < Len(w.ss.steps) THEN pending
    ELSE IF w.ss.step_selector # NoIndex /\ w.ss.step_selector < Len(w.ss.steps)
    THEN w.ss.step_selector
    ELSE 0

\* lines 571-579: a step switch asks for a canvas reinitialisation
StepSwitch(w, oid) ==
    LET current_step_id == w.h[oid].f["id"]
        prev_step_id == w.ss.current_step_id
    IN [w EXCEPT
          !.ss.canvas_reinit =
              IF prev_step_id # None /\ ~PyNumEq(prev_step_id, current_step_id)
              THEN MapSet(@, KeyOf(current_step_id), TRUE) ELSE @,
          !.ss.current_step_id = current_step_id]

\* float(v)
float(v) == [k |-> "float", num |-> Num(v), den |-> Den(v)]

\* max(a, b) and min(a, b) of Python: b only when it is strictly beyond a
PyMax(a, b) == IF PyLt(a, b) THEN b ELSE a

PyMin(a, b) == IF PyLt(b, a) THEN b ELSE a

\* lines 594-612: the slider shows the timestamp clamped to the video and
\* the step takes the slider value when the two differ
TimestampSync(w, oid) ==
    LET max_duration == IF Truthy(w.ss.video_info)
                        THEN w.ss.video_info.f["duration"]
                        ELSE PyFloat(100, 1)
        raw_ts == float(DictGetOr(w.h[oid], "timestamp", PyInt(0)))
        safe_value == PyMin(PyMax(raw_ts, PyFloat(0, 1)), max_duration)
        w1 == [w EXCEPT !.h[oid] = SetKey(@, "timestamp", safe_value)]
    IN IF HasKey(w.h[oid], "timestamp")
          /\ PyNumEq(safe_value, w.h[oid].f["timestamp"])
       THEN w
       ELSE IF Truthy(w.ss.video_info)
       THEN validate_timestamps_after_upload(w1)
       ELSE w1

\* lines 676-681: what the editor does with the outcome r of render
StoreAnnotations(w, oid, r) ==
    IF r.raised # "none" \/ r.annotations = None THEN w
    ELSE [w EXCEPT !.h[oid] = SetKey(@, "annotations", r.annotations)]

\* the session entries render wrote (lines 492-513 of canvas_component.py)
StoreCanvasEntries(w, key, needs_reinit, cached, r) ==
    IF r.raised # "none" THEN w
    ELSE [w EXCEPT
            !.ss.canvas_reinit =
                IF needs_reinit THEN MapSet(@, key, r.reinit) ELSE @,
            !.ss.canvas_cached_drawing =
                IF r.cached # cached THEN MapSet(@, key, r.cached) ELSE @]

\* the annotations render reads through steps_by_id (lines 486-487 of
\* canvas_component.py)
AnnotationsById(w, step_id) ==
    IF Num(step_id) \in DOMAIN w.ss.steps_by_id
    THEN DictGetOr(w.h[w.ss.steps_by_id[Num(step_id)]], "annotations",
                   PyList(<<>>))
    ELSE PyList(<<>>)

\* what a run showed in the canvas: no canvas, or the step whose canvas was
\* rendered, the session entries render found, the annotations it read and
\* its outcome r
NoCanvas ==
    [canvas |-> FALSE, id |-> 0, needs_reinit |-> FALSE, cached |-> None,
     stored |-> None, size |-> <<0, 0>>,
     r |-> RenderOutcome("none", None, FALSE, None)]

Canvas(w, oid, needs_reinit, cached, frame, r) ==
    [canvas |-> TRUE, id |-> Num(w.h[oid].f["id"]),
     needs_reinit |-> needs_reinit, cached |-> cached,
     stored |-> AnnotationsById(w, w.h[oid].f["id"]),
     size |-> <<CanvasWidth(frame, 400), 400>>, r |-> r]

AfterRender(w, oid, key, needs_reinit, cached, frame, r) ==
    [raised |-> r.raised,
     w |-> StoreAnnotations(StoreCanvasEntries(w, key, needs_reinit, cached, r),
                            oid, r),
     shown |-> Canvas(w, oid, needs_reinit, cached, frame, r)]

RenderStep(w, oid, key, needs_reinit, cached, frame, json_data) ==
    AfterRender(w, oid, key, needs_reinit, cached, frame,
                render(frame, AnnotationsById(w, w.h[oid].f["id"]), FALSE, 400,
                       needs_reinit, cached, json_data))

\* lines 664-681: the canvas of the current step and the storing of what it
\* returns; frame is the <<width, height>> of the extracted frame
CanvasPart(w, oid, frame, json_data) ==
    RenderStep(w, oid, KeyOf(w.h[oid].f["id"]),
               MapGet(w.ss.canvas_reinit, KeyOf(w.h[oid].f["id"]), TRUE),
               MapGet(w.ss.canvas_cached_drawing, KeyOf(w.h[oid].f["id"]), None),
               frame, json_data)

\* lines 614-687: what is shown for the frame of the current step
FramePart(w, oid, frame_ok, json_data) ==
    IF w.ss.preview_mode \/ w.ss.temp_video_path = None \/ ~frame_ok
    THEN [raised |-> "none", w |-> w, shown |-> NoCanvas]
    ELSE IF w.ss.editor_preview_pending
    THEN [raised |-> "none", w |-> [w EXCEPT !.ss.editor_preview_pending = FALSE],
          shown |-> NoCanvas]
    ELSE CanvasPart(w, oid,
                    <<Num(w.ss.video_info.f["width"]),
                      Num(w.ss.video_info.f["height"])>>,
                    json_data)

\* render_tab_editor when no button of the step list is pressed: the run up
\* to the annotation list.  pending is _pending_step_index, frame_ok tells
\* whether the frame could be extracted, json_data is what the canvas widget
\* reports.
EditorPass(w, pending, frame_ok, json_data) ==
    IF Len(w.ss.steps) = 0 THEN [raised |-> "none", w |-> w, shown |-> NoCanvas]
    ELSE LET selected_index == SelectedIndex(w, pending)
             oid == w.ss.steps[selected_index + 1]
             w1 == [w EXCEPT !.ss.step_selector = selected_index]
         IN FramePart(TimestampSync(StepSwitch(w1, oid), oid), oid, frame_ok,
                      json_data)

\* lines 450-460
AddFirstStepOp(w) ==
    LET oid == NewOid(w.h)
        new_step == PyDict([id |-> get_next_step_id(w),
                            timestamp |-> PyFloat(0, 1),
                            title |-> PyStr(""), description |-> PyStr(""),
                            annotations |-> PyList(<<>>)])
    IN rebuild_steps_by_id([w EXCEPT !.ss.steps = Append(@, oid),
                                     !.h = MapSet(@, oid, new_step)])

\* list.insert(index, x) for index <= len
Insert(seq, index, x) ==
    SubSeq(seq, 1, index) \o <<x>> \o SubSeq(seq, index + 1, Len(seq))

\* lines 545-557: the copy placed after the selected step
DuplicateStepOp(w, selected_index) ==
    LET source == w.h[w.ss.steps[selected_index + 1]]
        oid == NewOid(w.h)
        new_step ==
            PyDict([id |-> get_next_step_id(w),
                    timestamp |-> DictGetOr(source, "timestamp", PyInt(0)),
                    title |-> DictGetOr(source, "title", PyStr("")),
                    description |-> DictGetOr(source, "description", PyStr("")),
                    annotations |-> DictGetOr(source, "annotations", PyList(<<>>))])
    IN rebuild_steps_by_id(
         [w EXCEPT !.ss.steps = Insert(@, selected_index + 1, oid),
                   !.h = MapSet(@, oid, new_step)])

\* a, b = b, a on two places (0-based) of the steps list, then the rebuild
SwapSteps(w, i, j) ==
    rebuild_steps_by_id(
      [w EXCEPT !.ss.steps = [@ EXCEPT ![i + 1] = w.ss.steps[j + 1],
                                       ![j + 1] = w.ss.steps[i + 1]]])

\* lines 506-513
MoveStepUpOp(w, idx) == SwapSteps(w, idx - 1, idx)

\* lines 518-525
MoveStepDownOp(w, idx) == SwapSteps(w, idx, idx + 1)

\* lines 530-542: an empty step placed after the selected one
InsertStepOp(w, selected_index) ==
    LET current_ts == DictGetOr(w.h[w.ss.steps[selected_index + 1]],
                                "timestamp", PyInt(0))
        oid == NewOid(w.h)
        new_step == PyDict([id |-> get_next_step_id(w),
                            timestamp |-> PyAdd(current_ts, PyFloat(1, 1)),
                            title |-> PyStr(""), description |-> PyStr(""),
                            annotations |-> PyList(<<>>)])
    IN rebuild_steps_by_id(
         [w EXCEPT !.ss.steps = Insert(@, selected_index + 1, oid),
                   !.h = MapSet(@, oid, new_step)])

\* the steps list without the steps whose id equals step_id
WithoutId(w, step_id) ==
    SelectSeq(w.ss.steps, LAMBDA o : ~PyNumEq(w.h[o].f["id"], step_id))

\* the objects a steps list refers to
Live(h, seq) == [o \in {seq[i] : i \in DOMAIN seq} |-> h[o]]

\* lines 560-567: the selected step is filtered out by its id
DeleteStepOp(w, selected_index) ==
    rebuild_steps_by_id(
      [w EXCEPT !.ss.steps = WithoutId(w, w.h[w.ss.steps[selected_index + 1]].f["id"]),
                !.h = Live(w.h, WithoutId(w, w.h[w.ss.steps[selected_index + 1]].f["id"]))])

\* step_id in st.session_state.exceeded_step_ids
InExceeded(w, step_id) ==
    \E k \in DOMAIN w.ss.exceeded_step_ids :
        w.ss.exceeded_step_ids[k] = step_id
        \/ (/\ isinstance_number(w.ss.exceeded_step_ids[k])
            /\ isinstance_number(step_id)
            /\ PyNumEq(w.ss.exceeded_step_ids[k], step_id))

\* lines 464-469: what the label of a step is made of
StepLabel(w, step) ==
    <<step.f["id"], DictGetOr(step, "title", PyStr("untitled")),
      InExceeded(w, step.f["id"])>>

StepLabels(w) == [i \in DOMAIN w.ss.steps |-> StepLabel(w, w.h[w.ss.steps[i]])]

\* label_to_idx[label]: the last place that carries the label
LabelToIdx(labels, label) ==
    CHOOSE i \in DOMAIN labels :
      /\ labels[i] = label
      /\ \A j \in DOMAIN labels : labels[j] = label => j <= i

\* lines 473-482: sorted_labels is what sort_items returns
ReorderOp(w, sorted_labels) ==
    rebuild_steps_by_id(
      [w EXCEPT !.ss.steps =
         [i \in DOMAIN sorted_labels |->
            w.ss.steps[LabelToIdx(StepLabels(w), sorted_labels[i])]]])

\* list.pop(i)
Pop(seq, i) == SubSeq(seq, 1, i) \o SubSeq(seq, i + 2, Len(seq))

\* lines 751-755: the delete button of annotation i of the current step
DeleteAnnotationOp(w, i) ==
    LET oid == w.ss.steps[w.ss.step_selector + 1]
        annotations == DictGetOr(w.h[oid], "annotations", PyList(<<>>))
    IN [w EXCEPT
          !.h[oid] = SetKey(@, "annotations", PyList(Pop(annotations.items, i))),
          !.ss.canvas_reinit = MapSet(@, KeyOf(w.h[oid].f["id"]), TRUE)]

\* lines 273-292: a new video file; saved tells whether the temporary copy
\* could be written, video_info is what get_video_info returns
UploadVideoOp(w, saved, video_info, name) ==
    IF ~saved THEN w
    ELSE LET w1 == [w EXCEPT !.ss.temp_video_path = PyStr("/tmp/" \o name)]
         IN IF ~Truthy(video_info) THEN w1
            ELSE validate_timestamps_after_upload(
                   [w1 EXCEPT !.ss.video_info = video_info,
                              !.ss.video_path = PyStr(name),
                              !.ss.preview_mode = FALSE])

\* lines 304-310
DeleteVideoOp(w) ==
    [w EXCEPT !.ss.temp_video_path = None,
              !.ss.video_info = None,
              !.ss.video_path = PyStr(""),
              !.ss.preview_mode = TRUE,
              !.ss.exceeded_step_ids = <<>>]

---------------------------------------------------------------------------
(* app.py: create_save_json *)

APP_VERSION == "1.0.0"

\* what a comprehension made, or the exception that ended it
Built(items) == [raised |-> "none", items |-> items]

Broken(exc) == [raised |-> exc, items |-> <<>>]

\* an annotation copied with every key
WithFabric(ann) == ann

\* {k: v for k, v in ann.items() if k != "_fabric_obj"} (line 160)
WithoutFabric(ann) ==
    PyDict([k \in (DOMAIN ann.f) \ {"_fabric_obj"} |-> ann.f[k]])

PushSaved(item, rest) ==
    IF rest.raised # "none" THEN rest ELSE Built(<<item>> \o rest.items)

\* the comprehension of lines 159-162 over a list: ann.items() raises
\* AttributeError for an element that is no dict
RECURSIVE SaveAnnotationsFrom(_, _)
SaveAnnotationsFrom(anns, i) ==
    IF i > Len(anns) THEN Built(<<>>)
    ELSE IF ~isinstance_dict(anns[i]) THEN Broken("AttributeError")
    ELSE PushSaved(WithoutFabric(anns[i]), SaveAnnotationsFrom(anns, i + 1))

\* the comprehension over step.get("annotations", []): a non-empty string
\* or dict yields strings, which have no items(); None, a number or a bool
\* cannot be iterated
SaveAnnotations(annotations) ==
    IF isinstance_list(annotations)
    THEN SaveAnnotationsFrom(annotations.items, 1)
    ELSE IF annotations \in {PyStr(""), PyDict(<<>>)} THEN Built(<<>>)
    ELSE IF annotations.k \in {"str", "dict"} THEN Broken("AttributeError")
    ELSE Broken("TypeError")

\* lines 158-163: the copy of one step
StepCopy(step, annotations) ==
    IF annotations.raised # "none" THEN annotations
    ELSE Built(<<SetKey(step, "annotations", PyList(annotations.items))>>)

PushStep(step_copy, rest) ==
    IF step_copy.raised # "none" THEN step_copy
    ELSE IF rest.raised # "none" THEN rest
    ELSE Built(step_copy.items \o rest.items)

\* lines 156-163: steps_for_save
RECURSIVE StepsForSave(_, _)
StepsForSave(steps, i) ==
    IF i > Len(steps) THEN Built(<<>>)
    ELSE PushStep(StepCopy(steps[i],
                           SaveAnnotations(DictGetOr(steps[i], "annotations",
                                                     PyList(<<>>)))),
                  StepsForSave(steps, i + 1))

\* lines 165-176: the document and its text
SaveDocument(w, steps_for_save, created_at, modified_at) ==
    IF steps_for_save.raised # "none"
    THEN [raised |-> steps_for_save.raised, json |-> BadText]
    ELSE [raised |-> "none",
          json |-> Text(PyDict([project_name |-> w.ss.project_name,
                                video_path |-> w.ss.video_path,
                                video_info |-> w.ss.video_info,
                                steps |-> PyList(steps_for_save.items),
                                metadata |->
                                  PyDict([created_at |-> PyStr(created_at),
                                          modified_at |-> PyStr(modified_at),
                                          app_version |-> PyStr(APP_VERSION)])]))]

\* created_at and modified_at are two readings of the clock
create_save_json(w, created_at, modified_at) ==
    SaveDocument(w, StepsForSave(StepValues(w), 1), created_at, modified_at)

\* render_sidebar, lines 320-329: the data of the download button; there is
\* no button while there are no steps
NoDownload == [raised |-> "none", json |-> BadText]

SaveSection(w, created_at, modified_at) ==
    IF Len(w.ss.steps) = 0 THEN NoDownload
    ELSE create_save_json(w, created_at, modified_at)

---------------------------------------------------------------------------
(* Inputs of the validators *)

\* longest steps array of an input document
MaxSteps == 2

Rect(a, b, c, d) ==
    PyDict([type |-> PyStr("rect"),
            rel_coords |-> PyList(<<a, b, c, d>>),
            color |-> PyStr("#FF0000"), stroke_width |-> PyInt(3)])

Half == PyFloat(1, 2)

Triangle == PyList(<<PyList(<<PyFloat(1, 10), PyFloat(1, 10)>>),
                     PyList(<<PyFloat(1, 5), PyFloat(1, 5)>>),
                     PyList(<<PyFloat(3, 10), PyFloat(1, 10)>>)>>)

\* an annotations array with one element per branch of the Tier B loop
MixedAnnotations ==
    PyList(<<Rect(PyFloat(1, 10), PyFloat(1, 5), Half, PyFloat(3, 5)),
             PyDict([type |-> PyStr("polygon"), rel_coords |-> Triangle]),
             PyDict([type |-> PyStr("line"),
                     rel_coords |-> PyList(<<PyInt(0), PyInt(0), PyInt(1), Half>>)]),
             PyDict([type |-> PyStr("circle"),
                     rel_coords |-> PyList(<<Half, Half, Half, Half>>)]),
             PyInt(5),
             PyDict([rel_coords |-> PyList(<<Half, Half, Half, Half>>)]),
             PyDict([type |-> PyStr("rect")]),
             Rect(PyInt(0), PyInt(0), PyInt(2), PyInt(1)),
             PyDict([type |-> PyStr("polygon"), rel_coords |-> PyStr("x")]),
             PyDict([type |-> PyInt(7), rel_coords |-> None]),
             PyDict([type |-> PyStr("line"), rel_coords |-> PyList(<<NaN, Half>>)])>>)

\* the step values input documents are built from
StepPool ==
    { PyDict([id |-> PyInt(1), timestamp |-> PyInt(5)]),
      PyDict([id |-> PyInt(2), timestamp |-> PyInt(0), title |-> PyStr("t"),
              description |-> PyStr("d"), annotations |-> MixedAnnotations]),
      PyDict([id |-> PyInt(1), timestamp |-> PyInt(6), title |-> PyInt(7),
              description |-> None]),
      PyDict([id |-> PyInt(1)]),
      PyDict([timestamp |-> PyInt(5)]),
      PyDict([id |-> PyInt(0), timestamp |-> PyInt(1)]),
      PyDict([id |-> PyFloat(1, 1), timestamp |-> PyInt(1)]),
      PyDict([id |-> PyBool(TRUE), timestamp |-> PyBool(TRUE)]),
      PyDict([id |-> PyInt(2), timestamp |-> PyStr("5")]),
      PyDict([id |-> PyInt(2), timestamp |-> PyInt(-1), title |-> PyStr("t")]),
      PyDict([id |-> PyInt(3), timestamp |-> NaN]),
      PyDict([id |-> PyInt(3), timestamp |-> PyFloat(7, 2),
              title |-> PyList(<<PyInt(1), PyStr("a")>>),
              description |-> PyFloat(3, 2), annotations |-> PyStr("abc")]),
      PyInt(5),
      PyDict([id |-> PyInt(4), timestamp |-> PyInt(9),
              annotations |-> PyList(<<PyDict([type |-> PyList(<<PyStr("rect")>>),
                                  rel_coords |-> PyList(<<Half, Half, Half, Half>>)])>>)]) }

StepLists == UNION {[1..n -> StepPool] : n \in 0..MaxSteps}

\* the top-level keys other than steps
Headers ==
    { <<>>,
      [project_name |-> PyStr("p"), video_path |-> PyStr("v.mp4"),
       video_info |-> None, metadata |-> PyDict([app_version |-> PyStr("1.0.0")])],
      [project_name |-> PyInt(5), video_info |-> PyInt(7),
       metadata |-> PyStr("m")],
      [video_info |-> PyDict([width |-> PyInt(800), height |-> PyInt(400),
                              fps |-> PyFloat(30, 1), duration |-> PyFloat(10, 1)])] }

\* decoded documents: objects with a steps array, objects whose steps is
\* missing or not an array, and top-level values that are not objects
Documents ==
    {SetKey(PyDict(h), "steps", PyList(q)) : h \in Headers, q \in StepLists}
    \cup {PyDict(h) : h \in Headers}
    \cup {SetKey(PyDict(<<>>), "steps", v) : v \in {None, PyStr("s"), PyDict(<<>>)}}
    \cup {None, PyInt(5), PyStr("x"), PyList(<<>>),
          PyList(<<PyStr("project_name")>>)}

Texts == {BadText} \cup {Text(v) : v \in Documents}

\* video_duration arguments: None is preview mode
Durations == {None, PyFloat(3, 1)}

\* clock readings
Clock == {"t0", "t1"}

---------------------------------------------------------------------------
(* The validators applied to one input *)

VARIABLES json_text, video_duration, r_parse, r_gemini, r_saved, r_pav,
          is_saved_json

vvars == <<json_text, video_duration, r_parse, r_gemini, r_saved, r_pav,
           is_saved_json>>

\* session_state and heap are the world of the editing session; runs counts
\* the script runs of the session so far; download is what the last run
\* handed to the download button of the sidebar; issued is the history of
\* the session: every id a step of the steps list has held at the end of a run.
\* Of the last run, shown is what its canvas rendered and event what it did
\* besides: "imported" (import_json_data returned a valid result),
\* "annotation_deleted" or "none"; fresh holds the ids of the steps created or
\* imported whose canvas has not been rendered since
VARIABLES session_state, heap, runs, download, issued, shown, event, fresh

svars == <<session_state, heap, runs, download, issued, shown, event, fresh>>

\* a function applied on its own: call is the function and its arguments,
\* rets the results of the calls made so far
VARIABLES call, rets

pvars == <<call, rets>>

\* no function is applied on its own
NoFunction == [fn |-> "none", args |-> <<>>]

vars == <<vvars, svars, pvars>>

\* a function that has not been called yet
NoCall == [raised |-> "nocall", errors |-> <<>>, warnings |-> <<>>, data |-> None]

Returned(r) == r.raised = "none"

InitV == /\ json_text \in Texts
         /\ video_duration \in Durations
         /\ r_parse = NoCall
         /\ r_gemini = NoCall
         /\ r_saved = NoCall
         /\ r_pav = NoCall
         /\ is_saved_json = FALSE
         /\ session_state = InitialSession
         /\ heap = <<>>
         /\ runs = 0
         /\ download = NoDownload
         /\ issued = {}
         /\ shown = NoCanvas
         /\ event = "none"
         /\ fresh = {}
         /\ call = NoFunction
         /\ rets = <<>>

CallParseJson ==
    /\ r_parse = NoCall
    /\ r_parse' = parse_json(json_text)
    /\ UNCHANGED <<json_text, video_duration, r_gemini, r_saved, r_pav,
                   is_saved_json, svars, pvars>>

CallValidateGemini ==
    /\ r_gemini = NoCall
    /\ json_text.ok
    /\ r_gemini' = validate_gemini_json(json_text.value, video_duration)
    /\ UNCHANGED <<json_text, video_duration, r_parse, r_saved, r_pav,
                   is_saved_json, svars, pvars>>

CallValidateSaved ==
    /\ r_saved = NoCall
    /\ json_text.ok
    /\ \E now \in Clock :
         r_saved' = validate_saved_json(json_text.value, video_duration, now)
    /\ UNCHANGED <<json_text, video_duration, r_parse, r_gemini, r_pav,
                   is_saved_json, svars, pvars>>

CallParseAndValidate ==
    /\ r_pav = NoCall
    /\ \E saved \in BOOLEAN, now \in Clock :
         /\ is_saved_json' = saved
         /\ r_pav' = parse_and_validate(json_text, video_duration, saved, now)
    /\ UNCHANGED <<json_text, video_duration, r_parse, r_gemini, r_saved,
                   svars, pvars>>

NextV == \/ CallParseJson
         \/ CallValidateGemini
         \/ CallValidateSaved
         \/ CallParseAndValidate

SpecV == InitV /\ [][NextV]_vars

---------------------------------------------------------------------------
(* The editing session: one action per user event, each a whole script run *)

\* most steps a session holds: the step buttons are not pressed beyond it
MaxSessionSteps == 2

\* most script runs of a session
MaxRuns == 5

\* most objects the canvas widget reports
MaxObjects == 1

\* a saved document of two steps, the second beyond every video
TwoSteps ==
    Text(PyDict([project_name |-> PyStr("p"),
                 steps |-> PyList(<<
                   PyDict([id |-> PyInt(1), timestamp |-> PyInt(2),
                           title |-> PyStr("a"),
                           annotations |-> PyList(<<
                             Rect(PyFloat(1, 10), PyFloat(1, 5), Half,
                                  PyFloat(3, 5))>>)]),
                   PyDict([id |-> PyInt(2), timestamp |-> PyInt(200)])>>)]))

\* a document without steps
NoSteps == Text(PyDict([steps |-> PyList(<<>>)]))

\* texts pasted into the AI tab: a top-level list, a document without steps
\* and one whose step has an annotation of an unknown type
AITexts ==
    { Text(PyList(<<>>)),
      NoSteps,
      Text(PyDict([steps |-> PyList(<<
                     PyDict([id |-> PyInt(1), timestamp |-> PyInt(200),
                             annotations |-> PyList(<<
                               PyDict([type |-> PyStr("circle"),
                                       rel_coords |->
                                         PyList(<<Half, Half, Half, Half>>)])
                               >>)])>>)])) }

\* files uploaded as saved JSON: one that does not parse, a document
\* without steps and one of two steps
SavedTexts == {BadText, NoSteps, TwoSteps}

SessionTexts == AITexts \cup SavedTexts

\* what get_video_info reports for the uploaded file, None on failure
VideoInfos ==
    { None,
      PyDict([width |-> PyInt(800), height |-> PyInt(400),
              duration |-> PyFloat(10, 1)]) }

\* Fabric.js objects the widget can report on the 800 x 400 canvas
FabricPool ==
    { PyDict([type |-> PyStr("rect"), left |-> PyInt(80), top |-> PyInt(40),
              width |-> PyInt(160), height |-> PyInt(80),
              stroke |-> PyStr("#FF0000"), strokeWidth |-> PyInt(3)]) }

\* canvas_result.json_data of a widget that has a result
CanvasData ==
    { PyDict([version |-> PyStr("4.4.0"), objects |-> PyList(q)]) :
        q \in UNION {[1..n -> FabricPool] : n \in 0..MaxObjects} }

\* the world the session variables hold
World == [ss |-> session_state, h |-> heap]

Store(w) == /\ runs < MaxRuns
            /\ runs' = runs + 1
            /\ session_state' = w.ss
            /\ heap' = w.h
            /\ issued' = issued \cup SessionKeys(w)

\* what the environment supplies to a run of the editor tab: the frame
\* could not be extracted, or it could and the widget reports json_data
EditorInputs ==
    {[frame_ok |-> FALSE, json_data |-> None]}
    \cup {[frame_ok |-> TRUE, json_data |-> d] : d \in CanvasData}

\* the clock reading of an import: it only reaches the default metadata,
\* which import_json_data does not store
SessionClock == {"t0"}

\* a script run from the save section of the sidebar on: saved is what
\* create_save_json made of the world side the sidebar saw, w the world the
\* editor tab starts from; an exception of create_save_json ends the run
\* the ids of the steps a run created: their objects are new
CreatedKeys ==
    {Num(heap'[o].f["id"]) : o \in DOMAIN heap' \ DOMAIN heap}

\* the id of the step whose canvas the run rendered
RenderedKeys ==
    IF shown'.canvas /\ shown'.r.raised = "none" THEN {shown'.id} ELSE {}

\* the record of a run that did e and ended in pass r of the editor tab
Record(r, e) ==
    /\ Store(r.w)
    /\ shown' = r.shown
    /\ event' = e
    /\ fresh' = (IF e = "imported" THEN SessionKeys(r.w)
                 ELSE (fresh \cap SessionKeys(r.w)) \cup CreatedKeys)
                \ RenderedKeys

RunSaved(saved, side, w, pending, e) ==
    IF saved.raised # "none"
    THEN /\ download' = NoDownload
         /\ Record([raised |-> saved.raised, w |-> side, shown |-> NoCanvas],
                   "none")
    ELSE /\ download' = saved
         /\ \E i \in EditorInputs :
              Record(EditorPass(w, pending, i.frame_ok, i.json_data), e)

Run(side, w, pending, e) ==
    \E created_at \in SessionClock, modified_at \in SessionClock :
        RunSaved(SaveSection(side, created_at, modified_at), side, w, pending, e)

\* a script run whose handlers ran before the save section of the sidebar
RunEditor(w, pending) == Run(w, w, pending, "none")

Init == /\ json_text = BadText
        /\ video_duration = None
        /\ r_parse = NoCall
        /\ r_gemini = NoCall
        /\ r_saved = NoCall
        /\ r_pav = NoCall
        /\ is_saved_json = FALSE
        /\ session_state = InitialSession
        /\ heap = <<>>
        /\ runs = 0
        /\ download = NoDownload
        /\ issued = {}
        /\ shown = NoCanvas
        /\ event = "none"
        /\ fresh = {}
        /\ call = NoFunction
        /\ rets = <<>>

\* the run after the import of the AI tab: an exception ends it
ImportEvent(r) ==
    IF r.raised = "none" /\ r.result.errors = <<>> THEN "imported" ELSE "none"

AfterImportAI(r) ==
    IF r.raised # "none" THEN UNCHANGED svars
    ELSE Run(World, r.w, NoIndex, ImportEvent(r))

\* the run goes on after the import of the sidebar
AfterUploadJson(r) == Run(World, r.w, NoIndex, ImportEvent(r))

\* render_tab_ai, lines 397-411: the import button
ImportAI ==
    /\ \E text \in AITexts, now \in SessionClock :
         AfterImportAI(import_json_data(World, text, FALSE, now))
    /\ UNCHANGED <<vvars, pvars>>

\* render_sidebar, lines 338-355: a saved JSON file; an exception is caught
UploadJson ==
    /\ \E text \in SavedTexts, now \in SessionClock :
         AfterUploadJson(import_json_data(World, text, TRUE, now))
    /\ UNCHANGED <<vvars, pvars>>

\* render_sidebar, lines 273-292
UploadVideo ==
    /\ \E saved \in BOOLEAN :
         \E video_info \in IF saved THEN VideoInfos ELSE {None} :
           RunEditor(UploadVideoOp(World, saved, video_info, "v.mp4"), NoIndex)
    /\ UNCHANGED <<vvars, pvars>>

\* render_sidebar, lines 304-310
DeleteVideo ==
    /\ Truthy(session_state.video_info)
    /\ RunEditor(DeleteVideoOp(World), NoIndex)
    /\ UNCHANGED <<vvars, pvars>>

\* render_tab_editor, lines 450-460, and the run st.rerun() starts
AddFirstStep ==
    /\ Len(session_state.steps) = 0
    /\ RunEditor(AddFirstStepOp(World), NoIndex)
    /\ UNCHANGED <<vvars, pvars>>

\* the radio of lines 493-500 set to another step
SelectStep ==
    /\ \E i \in 0..(Len(session_state.steps) - 1) :
         RunEditor([World EXCEPT !.ss.step_selector = i], NoIndex)
    /\ UNCHANGED <<vvars, pvars>>

\* render_tab_editor, lines 544-557, and the run st.rerun() starts
DuplicateStep ==
    /\ Len(session_state.steps) > 0
    /\ Len(session_state.steps) < MaxSessionSteps
    /\ RunEditor(DuplicateStepOp([World EXCEPT !.ss.step_selector =
                                                 SelectedIndex(World, NoIndex)],
                                 SelectedIndex(World, NoIndex)),
                 SelectedIndex(World, NoIndex) + 1)
    /\ UNCHANGED <<vvars, pvars>>

MoveUpAt(idx) ==
    /\ idx > 0
    /\ RunEditor(MoveStepUpOp([World EXCEPT !.ss.step_selector = idx], idx),
                 idx - 1)

\* render_tab_editor, lines 505-513, and the run st.rerun() starts
MoveStepUp ==
    /\ Len(session_state.steps) > 0
    /\ MoveUpAt(SelectedIndex(World, NoIndex))
    /\ UNCHANGED <<vvars, pvars>>

MoveDownAt(idx) ==
    /\ idx < Len(session_state.steps) - 1
    /\ RunEditor(MoveStepDownOp([World EXCEPT !.ss.step_selector = idx], idx),
                 idx + 1)

\* render_tab_editor, lines 517-525, and the run st.rerun() starts
MoveStepDown ==
    /\ Len(session_state.steps) > 0
    /\ MoveDownAt(SelectedIndex(World, NoIndex))
    /\ UNCHANGED <<vvars, pvars>>

InsertAt(idx) ==
    RunEditor(InsertStepOp([World EXCEPT !.ss.step_selector = idx], idx),
              idx + 1)

\* render_tab_editor, lines 529-542, and the run st.rerun() starts
InsertStep ==
    /\ Len(session_state.steps) > 0
    /\ Len(session_state.steps) < MaxSessionSteps
    /\ InsertAt(SelectedIndex(World, NoIndex))
    /\ UNCHANGED <<vvars, pvars>>

DeleteAt(idx) ==
    RunEditor(DeleteStepOp([World EXCEPT !.ss.step_selector = idx], idx),
              NoIndex)

\* render_tab_editor, lines 559-567, and the run st.rerun() starts
DeleteStep ==
    /\ Len(session_state.steps) > 1
    /\ DeleteAt(SelectedIndex(World, NoIndex))
    /\ UNCHANGED <<vvars, pvars>>

\* the orders sort_items can return: the labels in another arrangement
Arrangements(labels) ==
    { [i \in DOMAIN labels |-> labels[p[i]]] :
        p \in {q \in [DOMAIN labels -> DOMAIN labels] :
                 \A i, j \in DOMAIN labels : i # j => q[i] # q[j]} }

\* render_tab_editor, lines 471-482: the step list is dragged into another
\* order, and the run st.rerun() starts
DragReorder ==
    /\ Len(session_state.steps) > 0
    /\ \E sorted_labels \in Arrangements(StepLabels(World)) :
         /\ sorted_labels # StepLabels(World)
         /\ RunEditor(ReorderOp(World, sorted_labels), NoIndex)
    /\ UNCHANGED <<vvars, pvars>>

\* a run no button starts: the canvas reports a drawing, a widget changes
RenderEditor ==
    /\ RunEditor(World, NoIndex)
    /\ UNCHANGED <<vvars, pvars>>

\* the annotations listed for the selected step (line 735)
ListedAnnotations(w) ==
    DictGetOr(w.h[w.ss.steps[w.ss.step_selector + 1]], "annotations",
              PyList(<<>>)).items

\* the delete button of a listed annotation, in a run r that reached the list
PressDelete(r) ==
    /\ r.raised = "none"
    /\ \E i \in 0..(Len(ListedAnnotations(r.w)) - 1) :
         Run(DeleteAnnotationOp(r.w, i), DeleteAnnotationOp(r.w, i), NoIndex,
             "annotation_deleted")

\* render_tab_editor, lines 733-756: the run reaches the annotation list,
\* the delete button of annotation i is pressed, st.rerun() starts a run
DeleteAnnotation ==
    /\ Len(session_state.steps) > 0
    /\ \E e \in EditorInputs :
         PressDelete(EditorPass(World, NoIndex, e.frame_ok, e.json_data))
    /\ UNCHANGED <<vvars, pvars>>

Next == \/ ImportAI
        \/ UploadJson
        \/ UploadVideo
        \/ DeleteVideo
        \/ AddFirstStep
        \/ SelectStep
        \/ DuplicateStep
        \/ MoveStepUp
        \/ MoveStepDown
        \/ InsertStep
        \/ DeleteStep
        \/ DragReorder
        \/ RenderEditor
        \/ DeleteAnnotation

Spec == Init /\ [][Next]_vars

---------------------------------------------------------------------------
(* Functions applied on their own: validate_all_timestamps,               *)
(* validate_rel_coords, pixel_to_relative, relative_to_pixel and           *)
(* AnnotationCanvas.render, each on arguments drawn from a bounded set     *)

\* largest width or height of a canvas or frame, in pixels
MaxSide == 4

\* longest flat coordinate list; a polygon has up to MaxCoords - 1 points
MaxCoords == 4

\* most annotations stored in the step the canvas shows
MaxStored == 2

\* most objects the canvas widget reports
MaxDrawn == 3

\* steps as validate_all_timestamps may meet them
TimedSteps ==
    { PyDict([id |-> PyInt(1), timestamp |-> PyInt(5)]),
      PyDict([id |-> PyInt(2), timestamp |-> PyFloat(1, 2)]),
      PyDict([id |-> PyInt(3), timestamp |-> PyBool(TRUE)]),
      PyDict([id |-> PyInt(4), timestamp |-> PyStr("9")]),
      PyDict([id |-> PyInt(5)]),
      PyDict([id |-> PyInt(6), timestamp |-> None]),
      PyDict([id |-> None, timestamp |-> PyInt(9)]),
      PyDict([timestamp |-> PyInt(9)]),
      PyDict([id |-> PyStr("a"), timestamp |-> NaN]),
      PyInt(5) }

TimestampCalls ==
    { [fn |-> "validate_all_timestamps",
       args |-> [steps |-> PyList(q), duration |-> d]] :
        q \in UNION {[1..n -> TimedSteps] : n \in 0..MaxSteps},
        d \in {PyFloat(1, 2), PyInt(5)} }

\* elements of a coordinate list
CoordValues ==
    {PyInt(0), PyFloat(1, 1), PyFloat(3, 2), PyFloat(-1, 10), NaN,
     PyBool(TRUE), PyStr("s")}

\* elements of a polygon
PointValues ==
    { PyList(<<PyInt(0), PyFloat(1, 1)>>),
      PyList(<<PyFloat(1, 1), PyBool(TRUE)>>),
      PyList(<<PyFloat(3, 2), PyInt(0)>>),
      PyList(<<PyInt(0), PyStr("s")>>),
      PyList(<<NaN, PyInt(0)>>),
      PyList(<<PyInt(0), PyInt(0), PyInt(0)>>),
      PyInt(5) }

CoordLists ==
    {PyList(q) : q \in UNION {[1..n -> CoordValues] : n \in 0..MaxCoords}}
    \cup {PyList(q) : q \in UNION {[1..n -> PointValues] : n \in 0..(MaxCoords - 1)}}
    \cup {None, PyStr("abcd"), PyDict(<<>>)}

RelCoordsCalls ==
    { [fn |-> "validate_rel_coords",
       args |-> [annotation_type |-> t, coords |-> c]] :
        t \in {"rect", "line", "polygon", "circle"}, c \in CoordLists }

Sides == -1..MaxSide

PixelValues ==
    {PyInt(n) : n \in -1..MaxSide} \cup {PyFloat(3, 2), NaN}

PixelCalls ==
    { [fn |-> "pixel_to_relative",
       args |-> [x |-> x, y |-> y, canvas_width |-> w, canvas_height |-> h]] :
        x \in PixelValues, y \in PixelValues, w \in Sides, h \in Sides }

RelativeValues ==
    {PyInt(0), PyInt(1), PyFloat(1, 2), PyFloat(1, 4), PyFloat(1, 3),
     PyFloat(3, 2), PyFloat(-1, 10), NaN, PyBool(TRUE)}

RelativeCalls ==
    { [fn |-> "relative_to_pixel",
       args |-> [rx |-> rx, ry |-> ry, video_width |-> w, video_height |-> h]] :
        rx \in RelativeValues, ry \in RelativeValues, w \in Sides, h \in Sides }

\* the frame shown in the canvas: <<width, height>>
Frame == <<800, 400>>

\* objects of the canvas widget: two rects, a line and a circle (which
\* _fabric_to_relative does not convert)
DrawnObjects ==
    FabricPool \cup
    { PyDict([type |-> PyStr("rect"), left |-> PyInt(0), top |-> PyInt(0),
              width |-> PyInt(400), height |-> PyInt(200)]),
      PyDict([type |-> PyStr("line"), left |-> PyInt(400), top |-> PyInt(200),
              x1 |-> PyInt(-100), y1 |-> PyInt(-50), x2 |-> PyInt(100),
              y2 |-> PyInt(50)]),
      PyDict([type |-> PyStr("circle"), left |-> PyInt(10), top |-> PyInt(10),
              radius |-> PyInt(5)]) }

\* stored annotations: an imported one and one an earlier drawing left
StoredPool ==
    {Rect(PyFloat(1, 10), PyFloat(1, 5), Half, PyFloat(3, 5))}
    \cup {parse_canvas_result(PyDict([objects |-> PyList(<<obj>>)]),
                              Frame[1], Frame[2])[1] : obj \in FabricPool}

RenderCalls ==
    { [fn |-> "render",
       args |-> [current_annotations |-> PyList(cur), json_data |-> j,
                 needs_reinit |-> reinit]] :
        cur \in UNION {[1..n -> StoredPool] : n \in 0..MaxStored},
        j \in {None, PyDict(<<>>)} \cup
              { PyDict([version |-> PyStr("4.4.0"), objects |-> PyList(q)]) :
                  q \in UNION {[1..n -> DrawnObjects] : n \in 0..MaxDrawn} },
        reinit \in BOOLEAN }

\* a document whose second step repeats the id of the first
RepeatedId ==
    Text(PyDict([project_name |-> PyStr("q"),
                 steps |-> PyList(<<
                   PyDict([id |-> PyInt(3), timestamp |-> PyInt(20)]),
                   PyDict([id |-> PyInt(3), timestamp |-> PyInt(4)])>>)]))

\* session worlds an import may meet: the initial one, one with a video and
\* a first step, and that one after an import of two steps
ImportWorlds ==
    { [ss |-> InitialSession, h |-> <<>>],
      UploadVideoOp(AddFirstStepOp([ss |-> InitialSession, h |-> <<>>]), TRUE,
                    CHOOSE v \in VideoInfos : v # None, "v.mp4"),
      import_json_data(
        UploadVideoOp(AddFirstStepOp([ss |-> InitialSession, h |-> <<>>]), TRUE,
                      CHOOSE v \in VideoInfos : v # None, "v.mp4"),
        TwoSteps, TRUE, "t0").w }

ImportCalls ==
    { [fn |-> "import_json_data",
       args |-> [w |-> w, json_text |-> t, is_saved_json |-> b]] :
        w \in ImportWorlds, t \in SessionTexts \cup {RepeatedId},
        b \in BOOLEAN }

\* canvas sizes: that of the 800 x 400 frame and that of a 16:9 frame, both
\* at the canvas height 400
CanvasSizes == {<<800, 400>>, <<711, 400>>}

Line(a, b, c, d) ==
    PyDict([type |-> PyStr("line"),
            rel_coords |-> PyList(<<a, b, c, d>>),
            color |-> PyStr("#00FF00"), stroke_width |-> PyInt(2)])

Polygon(points) ==
    PyDict([type |-> PyStr("polygon"), rel_coords |-> PyList(points),
            color |-> PyStr("#0000FF"), stroke_width |-> PyInt(3)])

\* annotations a step may hold when its canvas is drawn: imported ones
\* without a Fabric.js object (a rect, a line, a polygon, and the circle
\* and the rect beyond the frame that an import of AI output stores) and
\* ones an earlier drawing left, which carry their Fabric.js object
DrawingPool ==
    StoredPool
    \cup { Rect(PyFloat(1, 4), Half, PyFloat(3, 4), PyInt(1)),
           Line(PyInt(0), PyFloat(1, 3), PyInt(1), Half),
           Polygon(Triangle.items),
           PyDict([type |-> PyStr("circle"),
                   rel_coords |-> PyList(<<Half, Half, Half, Half>>)]),
           Rect(Half, Half, PyFloat(3, 2), PyInt(1)) }

DrawingCalls ==
    { [fn |-> "create_initial_drawing",
       args |-> [annotations |-> q, canvas_width |-> size[1],
                 canvas_height |-> size[2]]] :
        q \in UNION {[1..n -> DrawingPool] : n \in 0..MaxStored},
        size \in CanvasSizes }

\* coordinates validate_rel_coords accepts
UnitValues == {PyInt(0), PyInt(1), Half, PyFloat(1, 3), PyBool(TRUE)}

UnitPairs ==
    { <<PyInt(0), PyInt(0)>>, <<PyInt(1), Half>>, <<PyFloat(1, 3), PyInt(1)>>,
      <<Half, PyFloat(1, 3)>> }

\* valid annotations without a Fabric.js object: rects and lines of four
\* coordinates and polygons of 3 to MaxCoords - 1 points
ValidAnnotations ==
    { Rect(q[1], q[2], q[3], q[4]) : q \in [1..4 -> UnitValues] }
    \cup { Line(q[1], q[2], q[3], q[4]) : q \in [1..4 -> UnitValues] }
    \cup { Polygon([i \in 1..n |-> PyList(q[i])]) :
             n \in 3..(MaxCoords - 1), q \in [1..(MaxCoords - 1) -> UnitPairs] }

FabricCalls ==
    { [fn |-> "_relative_to_fabric",
       args |-> [annotation |-> a, canvas_width |-> size[1],
                 canvas_height |-> size[2]]] :
        a \in ValidAnnotations, size \in CanvasSizes }

\* four pixel coordinates, and lists that are not four numbers
PixelTuples ==
    { <<PyInt(1), PyInt(1), PyInt(2), PyInt(3)>>,
      <<PyInt(0), PyInt(0), PyInt(MaxSide), PyInt(MaxSide)>>,
      <<PyInt(-1), PyFloat(3, 2), PyInt(2), PyInt(2)>>,
      <<PyInt(1), PyStr("s"), PyInt(2), PyInt(2)>>,
      <<PyInt(1), PyInt(1), NaN, PyInt(2)>>,
      <<PyInt(1), PyInt(1), PyInt(2)>> }

\* four relative coordinates, and lists that are not four numbers in [0, 1]
RelativeTuples ==
    { <<PyFloat(1, 4), PyFloat(1, 2), PyInt(1), PyFloat(3, 4)>>,
      <<PyInt(0), PyInt(0), PyBool(TRUE), PyFloat(1, 8)>>,
      <<PyFloat(1, 2), PyFloat(1, 2), PyFloat(3, 2), PyInt(2)>>,
      <<PyFloat(-1, 10), PyInt(0), PyInt(1), PyInt(1)>>,
      <<PyInt(0), PyStr("s"), PyInt(1), PyInt(1)>>,
      <<PyInt(0), PyInt(0), NaN, PyInt(1)>>,
      <<PyInt(0), PyInt(0), PyInt(1)>> }

ToRelativeCalls ==
    { [fn |-> f,
       args |-> [coords |-> c, canvas_width |-> w, canvas_height |-> h]] :
        f \in {"rect_to_relative", "arrow_to_relative"}, c \in PixelTuples,
        w \in Sides, h \in Sides }

ToPixelCalls ==
    { [fn |-> f,
       args |-> [rel_coords |-> c, video_width |-> w, video_height |-> h]] :
        f \in {"rect_to_pixel", "arrow_to_pixel"}, c \in RelativeTuples,
        w \in Sides, h \in Sides }

InitF == /\ call \in TimestampCalls \cup RelCoordsCalls \cup PixelCalls
                     \cup RelativeCalls \cup RenderCalls \cup ImportCalls
                     \cup ToRelativeCalls \cup ToPixelCalls
                     \cup DrawingCalls \cup FabricCalls
         /\ rets = <<>>
         /\ json_text = BadText
         /\ video_duration = None
         /\ r_parse = NoCall
         /\ r_gemini = NoCall
         /\ r_saved = NoCall
         /\ r_pav = NoCall
         /\ is_saved_json = FALSE
         /\ session_state = InitialSession
         /\ heap = <<>>
         /\ runs = 0
         /\ download = NoDownload
         /\ issued = {}
         /\ shown = NoCanvas
         /\ event = "none"
         /\ fresh = {}

\* the call returned (or raised) r
Applied(r) == /\ rets' = Append(rets, r)
              /\ UNCHANGED <<call, vvars, svars>>

CallValidateAllTimestamps ==
    /\ call.fn = "validate_all_timestamps"
    /\ rets = <<>>
    /\ Applied(validate_all_timestamps(call.args.steps.items, call.args.duration))

CallValidateRelCoords ==
    /\ call.fn = "validate_rel_coords"
    /\ rets = <<>>
    /\ Applied(validate_rel_coords(call.args.annotation_type, call.args.coords))

CallPixelToRelative ==
    /\ call.fn = "pixel_to_relative"
    /\ rets = <<>>
    /\ Applied(pixel_to_relative(call.args.x, call.args.y,
                                 call.args.canvas_width, call.args.canvas_height))

CallRelativeToPixel ==
    /\ call.fn = "relative_to_pixel"
    /\ rets = <<>>
    /\ Applied(relative_to_pixel(call.args.rx, call.args.ry,
                                 call.args.video_width, call.args.video_height))

\* relative_to_pixel on what pixel_to_relative returned, for the same size
CallRelativeToPixelBack ==
    /\ call.fn = "pixel_to_relative"
    /\ Len(rets) = 1
    /\ rets[1].raised = "none"
    /\ Applied(relative_to_pixel(rets[1].rx, rets[1].ry,
                                 call.args.canvas_width, call.args.canvas_height))

\* render on a frame, outside preview mode, with nothing cached
CallRender ==
    /\ call.fn = "render"
    /\ rets = <<>>
    /\ Applied(render(Frame, call.args.current_annotations, FALSE, Frame[2],
                      call.args.needs_reinit, None, call.args.json_data))

\* import_json_data on a session world
CallImportJsonData ==
    /\ call.fn = "import_json_data"
    /\ rets = <<>>
    /\ \E now \in SessionClock :
         Applied(import_json_data(call.args.w, call.args.json_text,
                                  call.args.is_saved_json, now))

CallRectToRelative ==
    /\ call.fn = "rect_to_relative"
    /\ rets = <<>>
    /\ Applied(rect_to_relative(call.args.coords, call.args.canvas_width,
                                call.args.canvas_height))

CallArrowToRelative ==
    /\ call.fn = "arrow_to_relative"
    /\ rets = <<>>
    /\ Applied(arrow_to_relative(call.args.coords, call.args.canvas_width,
                                 call.args.canvas_height))

CallRectToPixel ==
    /\ call.fn = "rect_to_pixel"
    /\ rets = <<>>
    /\ Applied(rect_to_pixel(call.args.rel_coords, call.args.video_width,
                             call.args.video_height))

CallArrowToPixel ==
    /\ call.fn = "arrow_to_pixel"
    /\ rets = <<>>
    /\ Applied(arrow_to_pixel(call.args.rel_coords, call.args.video_width,
                              call.args.video_height))

CallCreateInitialDrawing ==
    /\ call.fn = "create_initial_drawing"
    /\ rets = <<>>
    /\ Applied(create_initial_drawing(call.args.annotations,
                                      call.args.canvas_width,
                                      call.args.canvas_height))

\* _relative_to_fabric on the annotation of a stored dict
CallRelativeToFabric ==
    /\ call.fn = "_relative_to_fabric"
    /\ rets = <<>>
    /\ Applied(_relative_to_fabric(from_dict(call.args.annotation),
                                   call.args.canvas_width,
                                   call.args.canvas_height))

\* _fabric_to_relative on the object _relative_to_fabric returned, for the
\* same canvas size
CallFabricToRelativeBack ==
    /\ call.fn = "_relative_to_fabric"
    /\ Len(rets) = 1
    /\ rets[1].raised = "none"
    /\ rets[1].obj # NoObject
    /\ Applied(_fabric_to_relative(rets[1].obj, call.args.canvas_width,
                                   call.args.canvas_height))

NextF == \/ CallValidateAllTimestamps
         \/ CallValidateRelCoords
         \/ CallPixelToRelative
         \/ CallRelativeToPixel
         \/ CallRelativeToPixelBack
         \/ CallRender
         \/ CallImportJsonData
         \/ CallRectToRelative
         \/ CallArrowToRelative
         \/ CallRectToPixel
         \/ CallArrowToPixel
         \/ CallCreateInitialDrawing
         \/ CallRelativeToFabric
         \/ CallFabricToRelativeBack

SpecF == InitF /\ [][NextF]_vars

---------------------------------------------------------------------------
(* Vocabulary of the properties of Tier A *)

\* Tier A returned and ran its loop over a steps array
TierALooped == /\ Returned(r_gemini)
               /\ HasKey(json_text.value, "steps")
               /\ isinstance_list(json_text.value.f["steps"])

\* Tier A returned at its steps check
TierAStopped == /\ Returned(r_gemini)
                /\ \/ ~HasKey(json_text.value, "steps")
                   \/ ~isinstance_list(json_text.value.f["steps"])

InSteps == json_text.value.f["steps"].items

CleanSteps(r) == r.data.f["steps"].items

\* positions in a message list of the messages that name step index i
MsgsAt(msgs, i) == {m \in DOMAIN msgs : msgs[m].step = i}

MsgsAtWith(msgs, i, code) ==
    {m \in DOMAIN msgs : msgs[m].step = i /\ msgs[m].code = code}

\* the 0-based input indexes no error names, in input order
AcceptedIdx(r, n) ==
    SelectSeq([i \in 1..n |-> i - 1], LAMBDA i : MsgsAt(r.errors, i) = {})

IdErrors == {"id_missing", "id_invalid", "id_duplicate"}

TimestampErrors ==
    {"timestamp_missing", "timestamp_not_number", "timestamp_negative"}

\* v is a number and v >= 0
NonNegativeNumber(v) ==
    /\ isinstance_number(v)
    /\ v.k # "nan"
    /\ Num(v) >= 0

\* input positions (1-based) of the steps that carry id value n
Carriers(n) ==
    {i \in DOMAIN InSteps :
        /\ isinstance_dict(InSteps[i])
        /\ HasKey(InSteps[i], "id")
        /\ isinstance_int(InSteps[i].f["id"])
        /\ Num(InSteps[i].f["id"]) = n}

Min(S) == CHOOSE x \in S : \A y \in S : x <= y

---------------------------------------------------------------------------
(* C1: every step Tier A keeps has an integer id >= 1 and a numeric        *)
(* timestamp >= 0, the kept ids are pairwise distinct, and of several      *)
(* input steps with the same id the first is kept and each later one is    *)
(* excluded with one error.                                                *)
C1_CleanStepsWellFormed ==
    TierALooped =>
      LET out == CleanSteps(r_gemini)
      IN /\ \A j \in DOMAIN out :
              /\ isinstance_int(out[j].f["id"])
              /\ Num(out[j].f["id"]) >= 1
              /\ NonNegativeNumber(out[j].f["timestamp"])
         /\ \A j1, j2 \in DOMAIN out :
              j1 # j2 => Num(out[j1].f["id"]) # Num(out[j2].f["id"])
         /\ \A n \in 1..4 :
              Cardinality(Carriers(n)) >= 2 =>
                /\ MsgsAt(r_gemini.errors, Min(Carriers(n)) - 1) = {}
                /\ \A i \in Carriers(n) \ {Min(Carriers(n))} :
                     Cardinality(MsgsAt(r_gemini.errors, i - 1)) = 1

(* C2: a returned result is valid exactly when its error list is empty,    *)
(* and appending warnings to it does not change its validity.              *)
C2_ValidIffNoErrors ==
    \A r \in {r_parse, r_gemini, r_saved, r_pav} :
      Returned(r) =>
        /\ is_valid(r) <=> (r.errors = <<>>)
        /\ \A w \in {Msg("steps_empty", -1, -1), Msg("title_not_string", 0, -1)} :
             /\ is_valid(add_warning(r, w)) <=> is_valid(r)
             /\ is_valid(add_warning(add_warning(r, w), w)) <=> is_valid(r)

C2_Witness ==
    /\ Returned(r_pav)
    /\ r_pav.warnings # <<>>
    /\ r_pav.errors = <<>>
    /\ is_valid(r_pav)

(* C3: parse_and_validate returns a result and never raises, whatever the  *)
(* decoded value is.                                                       *)
C3_NeverRaises == r_pav.raised \in {"nocall", "none"}

---------------------------------------------------------------------------
(* C5: when steps is absent or not a list, Tier A records exactly one      *)
(* error, examines no step, returns an invalid result and leaves the steps *)
(* entry of the payload as it was in the input.                            *)
C5_StepsMissingStops ==
    TierAStopped =>
      /\ Len(r_gemini.errors) = 1
      /\ r_gemini.errors[1].code \in {"steps_missing", "steps_not_list"}
      /\ ~is_valid(r_gemini)
      /\ \A m \in DOMAIN r_gemini.errors : r_gemini.errors[m].step = -1
      /\ \A m \in DOMAIN r_gemini.warnings : r_gemini.warnings[m].step = -1
      /\ HasKey(r_gemini.data, "steps") <=> HasKey(json_text.value, "steps")
      /\ HasKey(json_text.value, "steps") =>
           r_gemini.data.f["steps"] = json_text.value.f["steps"]

C5_Witness ==
    /\ TierAStopped
    /\ HasKey(json_text.value, "steps")
    /\ json_text.value.f["steps"] = PyStr("s")
    /\ r_gemini.data.f["steps"] = PyStr("s")

(* C6: a step Tier A rejects adds exactly one error, about its id, its     *)
(* timestamp or its not being an object, and is left out; later steps are  *)
(* still examined: the kept steps are the steps without an error, in input *)
(* order, and kept steps plus errors equals input steps.                   *)
C6_RejectedStepsSkipped ==
    TierALooped =>
      LET n == Len(InSteps)
          out == CleanSteps(r_gemini)
          acc == AcceptedIdx(r_gemini, n)
      IN /\ \A m \in DOMAIN r_gemini.errors :
              /\ r_gemini.errors[m].step \in 0..(n - 1)
              /\ r_gemini.errors[m].code \in
                   IdErrors \cup TimestampErrors \cup {"step_not_object"}
         /\ \A i \in 0..(n - 1) : Cardinality(MsgsAt(r_gemini.errors, i)) <= 1
         /\ Len(out) + Len(r_gemini.errors) = n
         /\ Len(out) = Len(acc)
         /\ \A j \in DOMAIN out :
              /\ isinstance_dict(InSteps[acc[j] + 1])
              /\ \A key \in DOMAIN InSteps[acc[j] + 1].f :
                   key \notin {"title", "description"} =>
                     out[j].f[key] = InSteps[acc[j] + 1].f[key]

C6_Witness ==
    /\ TierALooped
    /\ Len(InSteps) = 2
    /\ Len(r_gemini.errors) = 1
    /\ r_gemini.errors[1].step = 0
    /\ Len(CleanSteps(r_gemini)) = 1
    /\ CleanSteps(r_gemini)[1].f["id"] = InSteps[2].f["id"]

(* C7: a step whose timestamp exceeds a supplied video duration is kept,   *)
(* with exactly one timestamp warning and no error for its timestamp;      *)
(* without a duration no timestamp warning is ever added.                  *)
C7_TimestampBeyondDuration ==
    TierALooped =>
      LET n == Len(InSteps)
          Exceeds(i) == /\ isinstance_dict(InSteps[i + 1])
                        /\ HasKey(InSteps[i + 1], "timestamp")
                        /\ isinstance_number(InSteps[i + 1].f["timestamp"])
                        /\ video_duration # None
                        /\ PyLt(video_duration, InSteps[i + 1].f["timestamp"])
          Kept(i) == MsgsAt(r_gemini.errors, i) = {}
      IN /\ \A i \in 0..(n - 1) :
              Exceeds(i) =>
                /\ \A m \in MsgsAt(r_gemini.errors, i) :
                     r_gemini.errors[m].code \in IdErrors
                /\ Kept(i) =>
                     Cardinality(MsgsAtWith(r_gemini.warnings, i,
                                            "timestamp_exceeds")) = 1
         /\ \A i \in 0..(n - 1) :
              ~Exceeds(i) =>
                MsgsAtWith(r_gemini.warnings, i, "timestamp_exceeds") = {}
         /\ video_duration = None =>
              \A m \in DOMAIN r_gemini.warnings :
                r_gemini.warnings[m].code # "timestamp_exceeds"

C7_Witness ==
    /\ TierALooped
    /\ video_duration # None
    /\ r_gemini.errors = <<>>
    /\ Len(CleanSteps(r_gemini)) = 1
    /\ PyLt(video_duration, CleanSteps(r_gemini)[1].f["timestamp"])
    /\ MsgsAtWith(r_gemini.warnings, 0, "timestamp_exceeds") # {}

\* the handling of one text field of kept step j, which came from input step i
TextFieldRule(field, in_step, out_step, i) ==
    LET warned == MsgsAtWith(r_gemini.warnings, i, field \o "_not_string")
    IN /\ isinstance_str(out_step.f[field])
       /\ ~HasKey(in_step, field) =>
            /\ out_step.f[field] = PyStr("")
            /\ warned = {}
       /\ (HasKey(in_step, field) /\ isinstance_str(in_step.f[field])) =>
            /\ out_step.f[field] = in_step.f[field]
            /\ warned = {}
       /\ (HasKey(in_step, field) /\ ~isinstance_str(in_step.f[field])) =>
            /\ out_step.f[field] = str(in_step.f[field])
            /\ Cardinality(warned) = 1

(* C8: in every step Tier A keeps, title and description are strings: an   *)
(* absent field becomes "" without a warning, a non-string one becomes its *)
(* string form with exactly one warning, a string is kept; neither field   *)
(* ever causes an error.                                                   *)
C8_TitleDescriptionCoerced ==
    TierALooped =>
      LET n == Len(InSteps)
          out == CleanSteps(r_gemini)
          acc == AcceptedIdx(r_gemini, n)
      IN /\ Len(out) = Len(acc)
         /\ \A j \in DOMAIN out :
              /\ TextFieldRule("title", InSteps[acc[j] + 1], out[j], acc[j])
              /\ TextFieldRule("description", InSteps[acc[j] + 1], out[j], acc[j])
         /\ \A m \in DOMAIN r_gemini.errors :
              r_gemini.errors[m].code \in
                IdErrors \cup TimestampErrors \cup {"step_not_object"}
         /\ \A m \in DOMAIN r_gemini.warnings :
              r_gemini.warnings[m].code \in {"title_not_string", "description_not_string"}
                => MsgsAt(r_gemini.errors, r_gemini.warnings[m].step) = {}

C8_Witness ==
    /\ TierALooped
    /\ Len(InSteps) = 1
    /\ HasKey(InSteps[1], "title")
    /\ InSteps[1].f["title"] = PyInt(7)
    /\ InSteps[1].f["description"] = None
    /\ Len(CleanSteps(r_gemini)) = 1
    /\ CleanSteps(r_gemini)[1].f["title"] = PyStr("7")
    /\ CleanSteps(r_gemini)[1].f["description"] = PyStr("None")
    /\ Cardinality(MsgsAt(r_gemini.warnings, 0)) = 2

AnnotationCodes ==
    {"annotations_not_list", "annotation_not_object", "annotation_no_type",
     "annotation_bad_type", "annotation_polygon", "annotation_no_rel_coords",
     "annotation_bad_rel_coords"}

(* C9: Tier A does not look into annotations: in a kept step an absent     *)
(* annotations field becomes the empty list, a present one is copied as it *)
(* is, and no warning or error about annotations is produced.              *)
C9_AnnotationsPassThrough ==
    TierALooped =>
      LET n == Len(InSteps)
          out == CleanSteps(r_gemini)
          acc == AcceptedIdx(r_gemini, n)
      IN /\ Len(out) = Len(acc)
         /\ \A j \in DOMAIN out :
              IF HasKey(InSteps[acc[j] + 1], "annotations")
              THEN out[j].f["annotations"] = InSteps[acc[j] + 1].f["annotations"]
              ELSE out[j].f["annotations"] = PyList(<<>>)
         /\ \A m \in DOMAIN r_gemini.errors :
              r_gemini.errors[m].code \notin AnnotationCodes
         /\ \A m \in DOMAIN r_gemini.warnings :
              r_gemini.warnings[m].code \notin AnnotationCodes

C9_Witness ==
    /\ TierALooped
    /\ Len(InSteps) = 2
    /\ Len(CleanSteps(r_gemini)) = 2
    /\ CleanSteps(r_gemini)[1].f["annotations"] = PyStr("abc")
    /\ CleanSteps(r_gemini)[2].f["annotations"] = MixedAnnotations

(* C10: when Tier A reports an error, Tier B returns Tier A's result as it *)
(* is: the same errors, warnings and payload, without video_info or        *)
(* metadata added and without any annotation filtered.                     *)
C10_TierBStopsOnTierAError ==
    (Returned(r_gemini) /\ ~is_valid(r_gemini) /\ r_saved # NoCall) =>
      /\ r_saved = r_gemini
      /\ HasKey(r_saved.data, "metadata") <=> HasKey(json_text.value, "metadata")
      /\ HasKey(r_saved.data, "video_info") <=> HasKey(json_text.value, "video_info")

C10_Witness ==
    /\ TierALooped
    /\ ~is_valid(r_gemini)
    /\ Returned(r_saved)
    /\ Len(CleanSteps(r_gemini)) = 1
    /\ CleanSteps(r_saved)[1].f["annotations"] = MixedAnnotations
    /\ ~HasKey(r_saved.data, "metadata")

---------------------------------------------------------------------------
(* Vocabulary of the properties of Tier B *)

\* Tier B returned after a Tier A without errors, so its loop ran
TierBLooped == /\ Returned(r_gemini)
               /\ is_valid(r_gemini)
               /\ Returned(r_saved)

\* the annotations of step j (1-based) as Tier A hands them to Tier B
AnnotationsIn(j) == CleanSteps(r_gemini)[j].f["annotations"]

\* the annotations of step j (1-based) in the result of Tier B
AnnotationsOut(j) == CleanSteps(r_saved)[j].f["annotations"]

\* the positions of the warnings about annotation ann_idx of step idx
AnnotationWarnings(idx, ann_idx) ==
    {m \in DOMAIN r_saved.warnings :
        /\ r_saved.warnings[m].step = idx
        /\ r_saved.warnings[m].ann = ann_idx}

\* an object of type rect or line whose rel_coords validate_rel_coords accepts
RectOrLine(ann) ==
    /\ isinstance_dict(ann)
    /\ HasKey(ann, "type")
    /\ ann.f["type"] \in {PyStr("rect"), PyStr("line")}
    /\ HasKey(ann, "rel_coords")
    /\ validate_rel_coords(ann.f["type"].s, ann.f["rel_coords"]).valid

\* an object whose type is polygon
IsPolygon(ann) ==
    /\ isinstance_dict(ann)
    /\ HasKey(ann, "type")
    /\ ann.f["type"] = PyStr("polygon")

(* C11: in a result of Tier B on input that passes Tier A, every kept      *)
(* annotation is an object of type rect or line whose rel_coords           *)
(* validate_rel_coords accepts; the kept annotations are the input's,      *)
(* unmodified and in their order; every dropped element has exactly one    *)
(* warning and no error, and no kept element has a warning.                *)
C11_AnnotationsFiltered ==
    TierBLooped =>
      /\ Len(CleanSteps(r_saved)) = Len(CleanSteps(r_gemini))
      /\ \A j \in DOMAIN CleanSteps(r_saved) :
           isinstance_list(AnnotationsIn(j)) =>
             /\ \A k \in DOMAIN AnnotationsOut(j).items :
                  RectOrLine(AnnotationsOut(j).items[k])
             /\ AnnotationsOut(j).items =
                  SelectSeq(AnnotationsIn(j).items, RectOrLine)
             /\ \A i \in DOMAIN AnnotationsIn(j).items :
                  Cardinality(AnnotationWarnings(j - 1, i - 1)) =
                    IF RectOrLine(AnnotationsIn(j).items[i]) THEN 0 ELSE 1
      /\ \A m \in DOMAIN r_saved.errors : r_saved.errors[m].ann = -1

C11_Witness ==
    /\ TierBLooped
    /\ is_valid(r_saved)
    /\ Len(CleanSteps(r_saved)) = 2
    /\ AnnotationsIn(2) = MixedAnnotations
    /\ AnnotationsOut(2).items =
         <<MixedAnnotations.items[1], MixedAnnotations.items[3]>>
    /\ Cardinality({m \in DOMAIN r_saved.warnings :
                      r_saved.warnings[m].ann >= 0}) = 9

(* C12: Tier B drops every polygon annotation, whatever its rel_coords     *)
(* are, and reports it with exactly one warning, which is the              *)
(* polygon-not-supported warning: the polygon check precedes the checks of *)
(* rel_coords.                                                             *)
C12_PolygonsDropped ==
    TierBLooped =>
      \A j \in DOMAIN CleanSteps(r_saved) :
        isinstance_list(AnnotationsIn(j)) =>
          /\ \A k \in DOMAIN AnnotationsOut(j).items :
               ~IsPolygon(AnnotationsOut(j).items[k])
          /\ \A i \in DOMAIN AnnotationsIn(j).items :
               IsPolygon(AnnotationsIn(j).items[i]) =>
                 /\ Cardinality(AnnotationWarnings(j - 1, i - 1)) = 1
                 /\ \A m \in AnnotationWarnings(j - 1, i - 1) :
                      r_saved.warnings[m].code = "annotation_polygon"

C12_Witness ==
    /\ TierBLooped
    /\ Len(CleanSteps(r_saved)) = 1
    /\ AnnotationsIn(1) = MixedAnnotations
    /\ validate_rel_coords("polygon", AnnotationsIn(1).items[2].f["rel_coords"]).valid
    /\ ~validate_rel_coords("polygon", AnnotationsIn(1).items[9].f["rel_coords"]).valid
    /\ MsgsAtWith(r_saved.warnings, 0, "annotation_polygon") # {}
    /\ \A k \in DOMAIN AnnotationsOut(1).items :
         ~IsPolygon(AnnotationsOut(1).items[k])

(* C13: in a result of Tier B, a video_info that is present and neither an *)
(* object nor null is reported as an error, so the result is invalid; an   *)
(* absent, null or object video_info produces no such error; the payload   *)
(* holds the video_info of the input, and null for an absent one.          *)
C13_VideoInfoChecked ==
    TierBLooped =>
      /\ MsgsAtWith(r_saved.errors, -1, "video_info_not_object") # {}
           <=> /\ HasKey(json_text.value, "video_info")
               /\ json_text.value.f["video_info"] # None
               /\ ~isinstance_dict(json_text.value.f["video_info"])
      /\ MsgsAtWith(r_saved.errors, -1, "video_info_not_object") # {}
           => ~is_valid(r_saved)
      /\ Cardinality(MsgsAtWith(r_saved.errors, -1, "video_info_not_object")) <= 1
      /\ HasKey(r_saved.data, "video_info")
      /\ r_saved.data.f["video_info"] =
           IF HasKey(json_text.value, "video_info")
           THEN json_text.value.f["video_info"]
           ELSE None

C13_Witness ==
    /\ TierBLooped
    /\ HasKey(json_text.value, "video_info")
    /\ json_text.value.f["video_info"] = PyInt(7)
    /\ r_saved.errors = <<Msg("video_info_not_object", -1, -1)>>
    /\ ~is_valid(r_saved)
    /\ Len(CleanSteps(r_saved)) = 2

\* the messages that name a step follow the source: step indexes never
\* decrease and, within a step, annotation indexes never decrease
SourceOrdered(msgs) ==
    \A m, n \in DOMAIN msgs :
      (m < n /\ msgs[m].step >= 0 /\ msgs[n].step >= 0) =>
        /\ msgs[m].step <= msgs[n].step
        /\ (/\ msgs[m].step = msgs[n].step
            /\ msgs[m].ann >= 0
            /\ msgs[n].ann >= 0) => msgs[m].ann <= msgs[n].ann

\* no message occurs twice
NoDuplicate(msgs) ==
    \A m, n \in DOMAIN msgs : m # n => msgs[m] # msgs[n]

(* C14: in every result of Tier A and of Tier B, the errors list and the   *)
(* warnings list are each in source order: a message about step i never    *)
(* comes after a message about a step j > i, within a step a message about *)
(* annotation i never comes after one about an annotation j > i, and no    *)
(* message is duplicated.                                                  *)
C14_MessagesInSourceOrder ==
    /\ Returned(r_gemini) =>
         /\ SourceOrdered(r_gemini.errors)
         /\ SourceOrdered(r_gemini.warnings)
         /\ NoDuplicate(r_gemini.errors)
         /\ NoDuplicate(r_gemini.warnings)
    /\ Returned(r_saved) =>
         /\ SourceOrdered(r_saved.errors)
         /\ SourceOrdered(r_saved.warnings)
         /\ NoDuplicate(r_saved.errors)
         /\ NoDuplicate(r_saved.warnings)

---------------------------------------------------------------------------
(* Properties of the functions applied on their own *)

\* a step that is an object with an id, neither missing nor null, and a
\* numeric timestamp strictly greater than duration
BeyondDuration(step, duration) ==
    /\ isinstance_dict(step)
    /\ HasKey(step, "id")
    /\ step.f["id"] # None
    /\ HasKey(step, "timestamp")
    /\ isinstance_number(step.f["timestamp"])
    /\ step.f["timestamp"].k # "nan"
    /\ Num(step.f["timestamp"]) * Den(duration)
         > Num(duration) * Den(step.f["timestamp"])

\* the ids of a sequence of steps
IdsOf(steps) == [i \in DOMAIN steps |-> steps[i].f["id"]]

(* C15: validate_all_timestamps returns, in step order, the ids of exactly *)
(* the steps that are objects with an id and a numeric timestamp strictly  *)
(* greater than duration; steps that are not objects, lack id or timestamp *)
(* or have a non-numeric timestamp are skipped.                            *)
C15_ExceededIds ==
    (call.fn = "validate_all_timestamps" /\ rets # <<>>) =>
      rets[1] = IdsOf(SelectSeq(call.args.steps.items,
                                LAMBDA step : BeyondDuration(step, call.args.duration)))

\* a timestamp of True is beyond a duration of 0.5, a timestamp equal to the
\* duration is not
C15_Witness ==
    /\ call.fn = "validate_all_timestamps"
    /\ rets # <<>>
    /\ Len(call.args.steps.items) = 2
    /\ call.args.duration = PyFloat(1, 2)
    /\ call.args.steps.items[1] = PyDict([id |-> PyInt(3), timestamp |-> PyBool(TRUE)])
    /\ call.args.steps.items[2] = PyDict([id |-> PyInt(2), timestamp |-> PyFloat(1, 2)])
    /\ rets[1] = <<PyInt(3)>>

\* a number (int, float or bool, as isinstance sees them) in [0, 1]
UnitNumber(v) ==
    /\ v.k \in {"int", "float", "bool"}
    /\ 0 <= Num(v)
    /\ Num(v) <= Den(v)

\* a sequence of exactly 4 numbers in [0, 1]
FourUnitNumbers(coords) ==
    /\ isinstance_sequence(coords)
    /\ Len(coords.items) = 4
    /\ \A i \in 1..4 : UnitNumber(coords.items[i])

\* a sequence of at least 3 points, each a sequence of exactly 2 numbers in
\* [0, 1]
UnitPoints(coords) ==
    /\ isinstance_sequence(coords)
    /\ Len(coords.items) >= 3
    /\ \A i \in DOMAIN coords.items :
         /\ isinstance_sequence(coords.items[i])
         /\ Len(coords.items[i].items) = 2
         /\ \A j \in 1..2 : UnitNumber(coords.items[i].items[j])

(* C16: validate_rel_coords answers valid, with the empty message, exactly *)
(* when the type is rect or line and coords is a sequence of exactly 4     *)
(* numbers in [0, 1], or the type is polygon and coords is a sequence of   *)
(* at least 3 points, each a sequence of exactly 2 numbers in [0, 1]; in   *)
(* every other case, an unknown type and coords that are no sequence       *)
(* included, it answers invalid with a message that is not empty.          *)
C16_RelCoordsValid ==
    (call.fn = "validate_rel_coords" /\ rets # <<>>) =>
      /\ rets[1].valid <=>
           \/ /\ call.args.annotation_type \in {"rect", "line"}
              /\ FourUnitNumbers(call.args.coords)
           \/ /\ call.args.annotation_type = "polygon"
              /\ UnitPoints(call.args.coords)
      /\ rets[1].valid <=> rets[1].code = ""

\* a line whose four coordinates are 0, 1.0, True and 1.0 is valid
C16_Witness ==
    /\ call.fn = "validate_rel_coords"
    /\ rets # <<>>
    /\ call.args.annotation_type = "line"
    /\ call.args.coords =
         PyList(<<PyInt(0), PyFloat(1, 1), PyBool(TRUE), PyFloat(1, 1)>>)
    /\ rets[1] = CoordsOk

\* a number outside [0, 1]; nan is in no range
OutsideUnit(v) == v.k = "nan" \/ Num(v) < 0 \/ Num(v) > Den(v)

\* the integer n is a nearest integer to size * v
NearestTo(n, size, v) ==
    /\ n \in Int
    /\ 2 * (n * Den(v) - size * Num(v)) <= Den(v)
    /\ 2 * (size * Num(v) - n * Den(v)) <= Den(v)

\* r is value / size
RatioOf(r, value, size) ==
    IF value.k = "nan" THEN r = NaN
    ELSE /\ r.k = "float"
         /\ Num(r) * Den(value) * size = Num(value) * Den(r)

(* C17: pixel_to_relative raises exactly when the canvas width or height   *)
(* is <= 0 and otherwise returns (x / width, y / height); relative_to_pixel*)
(* raises exactly when the width or height is <= 0 or rx or ry is outside  *)
(* [0, 1], and otherwise returns a pair of integers, the nearest to        *)
(* width * rx and height * ry.                                             *)
C17_ConversionsRaise ==
    /\ (call.fn = "pixel_to_relative" /\ rets # <<>>) =>
         IF call.args.canvas_width <= 0 \/ call.args.canvas_height <= 0
         THEN rets[1].raised = "ValueError"
         ELSE /\ rets[1].raised = "none"
              /\ RatioOf(rets[1].rx, call.args.x, call.args.canvas_width)
              /\ RatioOf(rets[1].ry, call.args.y, call.args.canvas_height)
    /\ (call.fn = "relative_to_pixel" /\ rets # <<>>) =>
         IF \/ call.args.video_width <= 0
            \/ call.args.video_height <= 0
            \/ OutsideUnit(call.args.rx)
            \/ OutsideUnit(call.args.ry)
         THEN rets[1].raised = "ValueError"
         ELSE /\ rets[1].raised = "none"
              /\ NearestTo(rets[1].x, call.args.video_width, call.args.rx)
              /\ NearestTo(rets[1].y, call.args.video_height, call.args.ry)

\* (0.5, 0.25) on a 3 x 2 frame is the pixel (2, 0)
C17_Witness ==
    /\ call.fn = "relative_to_pixel"
    /\ rets # <<>>
    /\ call.args = [rx |-> PyFloat(1, 2), ry |-> PyFloat(1, 4),
                    video_width |-> 3, video_height |-> 2]
    /\ rets[1] = [raised |-> "none", x |-> 2, y |-> 0]

(* C18: for a width and height > 0 and integers 0 <= x <= width and        *)
(* 0 <= y <= height, relative_to_pixel applied to what pixel_to_relative   *)
(* returns for (x, y), with the same width and height, returns a pixel     *)
(* within 1 of (x, y) in each coordinate.                                  *)
C18_RoundTrip ==
    (/\ call.fn = "pixel_to_relative"
     /\ call.args.canvas_width > 0
     /\ call.args.canvas_height > 0
     /\ call.args.x \in {PyInt(n) : n \in 0..call.args.canvas_width}
     /\ call.args.y \in {PyInt(n) : n \in 0..call.args.canvas_height}) =>
      /\ Len(rets) >= 1 => rets[1].raised = "none"
      /\ Len(rets) = 2 =>
           /\ rets[2].raised = "none"
           /\ rets[2].x - Num(call.args.x) \in -1..1
           /\ rets[2].y - Num(call.args.y) \in -1..1

\* the pixel (4, 1) of a 4 x 3 canvas comes back
C18_Witness ==
    /\ call.fn = "pixel_to_relative"
    /\ call.args = [x |-> PyInt(4), y |-> PyInt(1),
                    canvas_width |-> 4, canvas_height |-> 3]
    /\ Len(rets) = 2
    /\ rets[1].rx = PyFloat(1, 1)
    /\ rets[1].ry = PyFloat(1, 3)
    /\ rets[2] = [raised |-> "none", x |-> 4, y |-> 1]

\* what parse_canvas_result makes of the widget's json_data for the canvas
\* render sizes for Frame
ParsedEntries ==
    parse_canvas_result(call.args.json_data,
                        CanvasWidth(Frame, CanvasHeight(Frame[2])),
                        CanvasHeight(Frame[2]))

\* render reached the reconciliation: no reinitialisation is pending and
\* the widget has a result
Reconciled == /\ call.fn = "render"
              /\ rets # <<>>
              /\ ~call.args.needs_reinit
              /\ ~Falsy(call.args.json_data)

(* C19: when render reconciles (reinit flag false, canvas result present)  *)
(* p stored annotations with n parsed ones, it returns for n > p the p     *)
(* stored annotations unchanged followed by the parsed entries at          *)
(* positions p..n-1, and for n <= p the stored annotations unchanged: the  *)
(* result has length max(p, n) and its first p entries are the stored ones.*)
C19_Reconciliation ==
    Reconciled =>
      /\ rets[1].raised = "none"
      /\ isinstance_list(rets[1].annotations)
      /\ LET stored == call.args.current_annotations.items
             out == rets[1].annotations.items
             p == Len(stored)
             n == Len(ParsedEntries)
         IN /\ Len(out) = IF n > p THEN n ELSE p
            /\ SubSeq(out, 1, p) = stored
            /\ \A i \in (p + 1)..n : out[i] = ParsedEntries[i]

\* one stored annotation and two drawn objects whose first differs from it
C19_Witness ==
    /\ Reconciled
    /\ Len(call.args.current_annotations.items) = 1
    /\ Len(ParsedEntries) = 2
    /\ ParsedEntries[1] # call.args.current_annotations.items[1]
    /\ ParsedEntries[2] # ParsedEntries[1]
    /\ rets[1].annotations.items =
         <<call.args.current_annotations.items[1], ParsedEntries[2]>>

---------------------------------------------------------------------------
(* Properties of the editing session *)

\* the annotations of the stored steps: every element of every annotations
\* entry that is a list
StoredAnnotations ==
    UNION { {DictGet(heap[session_state.steps[i]], "annotations").items[j] :
               j \in 1..Len(DictGet(heap[session_state.steps[i]],
                                    "annotations").items)} :
            i \in {n \in DOMAIN session_state.steps :
                     isinstance_list(DictGet(heap[session_state.steps[n]],
                                             "annotations"))} }

\* an annotation of one of the three types whose rel_coords
\* validate_rel_coords accepts for that type
WellFormedAnnotation(ann) ==
    /\ isinstance_dict(ann)
    /\ HasKey(ann, "type")
    /\ HasKey(ann, "rel_coords")
    /\ isinstance_str(ann.f["type"])
    /\ ann.f["type"].s \in VALID_ANNOTATION_TYPES
    /\ validate_rel_coords(ann.f["type"].s, ann.f["rel_coords"]).valid

\* C4: after any sequence of imports (AI tab or saved-JSON upload), canvas
\* edits, duplications and annotation deletions, every annotation stored in
\* a step has a type among rect, line, polygon and rel_coords that
\* validate_rel_coords accepts for that type.
C4_StoredAnnotationsValid ==
    \A ann \in StoredAnnotations : WellFormedAnnotation(ann)

\* the annotations the downloaded document holds: every element of every
\* step's annotations
DownloadedAnnotations ==
    UNION { {download.json.value.f["steps"].items[i].f["annotations"].items[j] :
               j \in DOMAIN download.json.value.f["steps"].items[i].f["annotations"].items} :
            i \in DOMAIN download.json.value.f["steps"].items }

\* C20: the JSON create_save_json produces never holds the key _fabric_obj
\* in an annotation of a step, whatever imports, canvas edits, duplications
\* and deletions came before.  (create_save_json assigns to its own copies
\* only, so the steps of the session and their _fabric_obj entries are what
\* they were.)
C20_SavedJsonWithoutFabric ==
    download.json.ok =>
      \A ann \in DownloadedAnnotations : ~HasKey(ann, "_fabric_obj")

\* a stored annotation that holds the canvas object it came from was saved
\* without it
C20_Witness ==
    /\ download.json.ok
    /\ \E ann \in StoredAnnotations :
         /\ isinstance_dict(ann)
         /\ HasKey(ann, "_fabric_obj")
         /\ WithoutFabric(ann) \in DownloadedAnnotations
         /\ HasKey(WithoutFabric(ann), "rel_coords")

\* the id of the step at place i (from 1) of the steps list
StepIdAt(i) == heap[session_state.steps[i]].f["id"]

(* C21: whatever operations the session went through (import, add first    *)
(* step, insert, duplicate, delete, move up or down, drag reorder), the ids *)
(* of the steps of the steps list are positive integers and pairwise        *)
(* distinct.                                                                *)
C21_StepIdsDistinctPositive ==
    \A i, j \in DOMAIN session_state.steps :
        /\ isinstance_int(StepIdAt(i))
        /\ Num(StepIdAt(i)) >= 1
        /\ i # j => Num(StepIdAt(i)) # Num(StepIdAt(j))

\* two steps in the list after a third id was issued: a step was deleted
\* and another created after it
C21_Witness ==
    /\ Len(session_state.steps) = 2
    /\ Cardinality(issued) >= 3
    /\ \E i \in DOMAIN session_state.steps : Num(StepIdAt(i)) = 3

\* a run that creates a step: add first step, insert or duplicate
CreatesStep == AddFirstStep \/ InsertStep \/ DuplicateStep

(* C22: a run that creates a step (add first step, insert, duplicate) gives *)
(* it an id no step of the session has held before, deleted steps included. *)
C22_IdsNeverReissued ==
    [][CreatesStep =>
         \A id \in SessionKeys(World)' \ SessionKeys(World) : id \notin issued]_vars

(* C23: at the end of every run, whatever operation changed the steps list, *)
(* steps_by_id has exactly the ids of the steps of the list as keys and     *)
(* maps each id to the very step object the list holds under that id: no    *)
(* id of a removed step is left and no id of a listed step is missing.      *)
C23_IndexMatchesSteps ==
    /\ DOMAIN session_state.steps_by_id = SessionKeys(World)
    /\ \A i \in DOMAIN session_state.steps :
         session_state.steps_by_id[Num(StepIdAt(i))] = session_state.steps[i]

\* a step was removed and the two steps of the list are out of id order
C23_Witness ==
    /\ Len(session_state.steps) = 2
    /\ Num(StepIdAt(1)) > Num(StepIdAt(2))
    /\ issued # SessionKeys(World)

\* the ids exceeded_step_ids holds
ExceededKeys ==
    {Num(session_state.exceeded_step_ids[i]) :
       i \in DOMAIN session_state.exceeded_step_ids}

\* the ids of the steps of the list whose timestamp is beyond the video
BeyondVideo ==
    {Num(StepIdAt(i)) : i \in {j \in DOMAIN session_state.steps :
       BeyondDuration(heap[session_state.steps[j]],
                      session_state.video_info.f["duration"])}}

(* C25: while a video is loaded, at the end of every run exceeded_step_ids  *)
(* holds exactly the ids of the steps of the list whose timestamp is        *)
(* greater than the duration of the video.                                  *)
C25_ExceededMatchesSteps ==
    Truthy(session_state.video_info) => ExceededKeys = BeyondVideo

\* the run rendered the canvas of a step and render returned
CanvasRendered == shown'.canvas /\ shown'.r.raised = "none"

\* the reinit flag the session holds for step id after the run
FlagAfter(id) == MapGet(session_state'.canvas_reinit, KeyOf(id), TRUE)

\* the render of the run found the flag true or, without a render, the flag
\* of the current step is true after the run
ReinitRequested ==
    IF CanvasRendered THEN shown'.needs_reinit
    ELSE FlagAfter(session_state'.current_step_id)

\* the run switched from one step to another
StepSwitched ==
    /\ session_state.current_step_id # None
    /\ ~PyNumEq(session_state.current_step_id, session_state'.current_step_id)

\* the flag is true where the claim says it is
FlagRaised ==
    /\ (CanvasRendered /\ shown'.id \in fresh \cup CreatedKeys)
         => shown'.needs_reinit
    /\ StepSwitched => ReinitRequested
    /\ event' = "annotation_deleted" => ReinitRequested
    /\ event' = "imported" =>
         \A o \in DOMAIN heap' : FlagAfter(heap'[o].f["id"])

\* a render that found the flag true
RenderReinit ==
    (CanvasRendered /\ shown'.needs_reinit) =>
      /\ shown'.r.cached =
           create_initial_drawing(shown'.stored.items, shown'.size[1],
                                  shown'.size[2]).obj
      /\ session_state'.canvas_cached_drawing[KeyOf(PyInt(shown'.id))]
           = shown'.r.cached
      /\ ~FlagAfter(PyInt(shown'.id))
      /\ shown'.r.annotations = shown'.stored

\* a render that found the flag false and a cached scene
RenderCached ==
    (CanvasRendered /\ ~shown'.needs_reinit /\ shown'.cached # None) =>
      /\ shown'.r.cached = shown'.cached
      /\ session_state'.canvas_cached_drawing[KeyOf(PyInt(shown'.id))]
           = shown'.cached
      /\ ~FlagAfter(PyInt(shown'.id))

(* C26: the render of a step finds its reinit flag true when it is the      *)
(* first render of that step, after a switch to the step, after the         *)
(* deletion of one of its annotations and after an import; a render that    *)
(* finds the flag true makes a scene of the stored annotations, caches it,  *)
(* clears the flag and returns the stored annotations whatever the canvas   *)
(* reports; a render that finds the flag false and a cached scene uses that *)
(* scene as it is.                                                          *)
C26_ReinitProtocol == [][FlagRaised /\ RenderReinit /\ RenderCached]_vars

---------------------------------------------------------------------------
(* Properties of import_json_data applied to a session world *)

\* import_json_data returned
ImportApplied ==
    /\ call.fn = "import_json_data"
    /\ Len(rets) = 1
    /\ rets[1].raised = "none"

\* the index of world w has the ids of its steps as keys, each on its step
IndexOf(w) ==
    /\ DOMAIN w.ss.steps_by_id = SessionKeys(w)
    /\ \A i \in DOMAIN w.ss.steps :
         w.ss.steps_by_id[Num(w.h[w.ss.steps[i]].f["id"])] = w.ss.steps[i]

(* C24: an import whose validation result has an error leaves the project  *)
(* name, the steps list and its steps, steps_by_id, the canvas reinit flags *)
(* and exceeded_step_ids as they were; an import whose result is valid      *)
(* makes the steps list the cleaned steps of the result and steps_by_id the *)
(* index of that list.                                                      *)
C24_ImportFrame ==
    ImportApplied =>
      /\ rets[1].result.errors # <<>> =>
           /\ rets[1].w.ss.project_name = call.args.w.ss.project_name
           /\ rets[1].w.ss.steps = call.args.w.ss.steps
           /\ rets[1].w.h = call.args.w.h
           /\ rets[1].w.ss.steps_by_id = call.args.w.ss.steps_by_id
           /\ rets[1].w.ss.canvas_reinit = call.args.w.ss.canvas_reinit
           /\ rets[1].w.ss.exceeded_step_ids = call.args.w.ss.exceeded_step_ids
      /\ rets[1].result.errors = <<>> =>
           /\ StepValues(rets[1].w) = rets[1].result.data.f["steps"].items
           /\ IndexOf(rets[1].w)

\* an invalid result that carries a cleaned step, met by a session that has
\* steps and exceeded ids
C24_Witness ==
    /\ ImportApplied
    /\ rets[1].result.errors # <<>>
    /\ Truthy(rets[1].result.data)
    /\ Len(rets[1].result.data.f["steps"].items) = 1
    /\ Len(call.args.w.ss.steps) = 2
    /\ call.args.w.ss.exceeded_step_ids # <<>>

---------------------------------------------------------------------------
(* Properties of the conversions of four coordinates *)

\* one of the four conversions was applied to a list of four coordinates
ToRelativeApplied ==
    /\ call.fn \in {"rect_to_relative", "arrow_to_relative"}
    /\ rets # <<>>
    /\ Len(call.args.coords) = 4

ToPixelApplied ==
    /\ call.fn \in {"rect_to_pixel", "arrow_to_pixel"}
    /\ rets # <<>>
    /\ Len(call.args.rel_coords) = 4

(* C27: rect_to_relative, arrow_to_relative, rect_to_pixel and              *)
(* arrow_to_pixel raise when a canvas or video dimension is <= 0 and the    *)
(* two to-pixel forms raise when one of the four relative coordinates is    *)
(* outside [0, 1]: no result is returned for such arguments.                *)
C27_TupleFormsRaise ==
    /\ (ToRelativeApplied
         /\ (call.args.canvas_width <= 0 \/ call.args.canvas_height <= 0))
        => rets[1].raised # "none"
    /\ (ToPixelApplied
         /\ (call.args.video_width <= 0 \/ call.args.video_height <= 0))
        => rets[1].raised # "none"
    /\ (ToPixelApplied
         /\ \E i \in 1..4 : /\ isinstance_number(call.args.rel_coords[i])
                             /\ OutsideUnit(call.args.rel_coords[i]))
        => rets[1].raised # "none"

---------------------------------------------------------------------------
(* Properties of the index validate_rel_coords names *)

\* the rejections that name an element of coords
ElementCodes ==
    {"not_a_number", "out_of_range", "point_not_sequence", "point_not_pair",
     "point_not_a_number", "point_out_of_range"}

\* validate_rel_coords rejected coords for one of its elements
ElementRejected ==
    /\ call.fn = "validate_rel_coords"
    /\ rets # <<>>
    /\ rets[1].code \in ElementCodes

\* what one coordinate fails: its type, its range, or nothing
CoordinateFailure(v) ==
    IF v.k \notin {"int", "float", "bool", "nan"} THEN "not_a_number"
    ELSE IF ~UnitNumber(v) THEN "out_of_range"
    ELSE ""

\* a point that passes the structure, type and range checks
UnitPoint(p) ==
    /\ isinstance_sequence(p)
    /\ Len(p.items) = 2
    /\ \A j \in 1..2 : UnitNumber(p.items[j])

\* the rejection of the point p at index i: its structure first, then its
\* lowest failing coordinate
PointFailure(p, i) ==
    IF ~isinstance_sequence(p) THEN CoordsBad("point_not_sequence", i, -1)
    ELSE IF Len(p.items) # 2 THEN CoordsBad("point_not_pair", i, -1)
    ELSE IF ~UnitNumber(p.items[1])
    THEN CoordsBad("point_" \o CoordinateFailure(p.items[1]), i, 0)
    ELSE CoordsBad("point_" \o CoordinateFailure(p.items[2]), i, 1)

\* coords with the element at position k replaced by v
Replaced(coords, k, v) == PyList([coords.items EXCEPT ![k] = v])

\* the values an element of coords can be replaced by
Replacements == CoordValues \cup PointValues

(* C28: when validate_rel_coords rejects coords for one of its elements,   *)
(* the index in the message is the smallest failing position: for rect and *)
(* line the lowest index whose value is not a number or not in [0, 1], for *)
(* polygon the lowest index of a point that fails the structure, type or   *)
(* range check and, within that point, its lowest failing coordinate; no   *)
(* later element is examined, so replacing one changes nothing.            *)
C28_SmallestFailingIndex ==
    ElementRejected =>
      /\ rets[1].i + 1 \in DOMAIN call.args.coords.items
      /\ call.args.annotation_type \in {"rect", "line"} =>
           /\ \A k \in 1..rets[1].i : UnitNumber(call.args.coords.items[k])
           /\ rets[1] = CoordsBad(
                CoordinateFailure(call.args.coords.items[rets[1].i + 1]),
                rets[1].i, -1)
      /\ call.args.annotation_type = "polygon" =>
           /\ \A k \in 1..rets[1].i : UnitPoint(call.args.coords.items[k])
           /\ ~UnitPoint(call.args.coords.items[rets[1].i + 1])
           /\ rets[1] = PointFailure(call.args.coords.items[rets[1].i + 1],
                                     rets[1].i)
      /\ \A k \in (rets[1].i + 2)..Len(call.args.coords.items) :
           \A v \in Replacements :
             validate_rel_coords(call.args.annotation_type,
                                 Replaced(call.args.coords, k, v)) = rets[1]

\* a rect whose coordinate at index 1 is out of range and whose later
\* coordinates are a string and nan: index 1 is named
C28_Witness ==
    /\ ElementRejected
    /\ call.args.annotation_type = "rect"
    /\ call.args.coords =
         PyList(<<PyInt(0), PyFloat(3, 2), PyStr("s"), NaN>>)
    /\ rets[1] = CoordsBad("out_of_range", 1, -1)

\* a polygon whose point at index 1 has a string at index 1 and whose point
\* at index 2 is no sequence: point 1, index 1 is named
C28_WitnessPolygon ==
    /\ ElementRejected
    /\ call.args.annotation_type = "polygon"
    /\ call.args.coords =
         PyList(<<PyList(<<PyInt(0), PyFloat(1, 1)>>),
                  PyList(<<PyInt(0), PyStr("s")>>),
                  PyInt(5)>>)
    /\ rets[1] = CoordsBad("point_not_a_number", 1, 1)

---------------------------------------------------------------------------
(* Properties of the scene create_initial_drawing makes *)

DrawingApplied ==
    /\ call.fn = "create_initial_drawing"
    /\ rets # <<>>

\* the Fabric.js object an annotation carries, None when it carries none
ProvenanceOf(ann_dict) == DictGet(ann_dict, "_fabric_obj")

\* the number p is the pixel of the relative coordinate v on a side of
\* size pixels
OnPixel(p, size, v) ==
    /\ Num(p) % Den(p) = 0
    /\ NearestTo(Num(p) \div Den(p), size, v)

\* obj is the rect whose left and top are the pixel of the first corner and
\* whose width and height reach the pixel of the second corner
RectOf(obj, coords, canvas_width, canvas_height) ==
    /\ obj.f["type"] = PyStr("rect")
    /\ OnPixel(obj.f["left"], canvas_width, coords[1])
    /\ OnPixel(obj.f["top"], canvas_height, coords[2])
    /\ OnPixel(PyAdd(obj.f["left"], obj.f["width"]), canvas_width, coords[3])
    /\ OnPixel(PyAdd(obj.f["top"], obj.f["height"]), canvas_height, coords[4])

\* obj is the line whose left and top are the midpoint of the two end
\* pixels and whose x1, y1, x2, y2 are the offsets of the end pixels from it
LineOf(obj, coords, canvas_width, canvas_height) ==
    /\ obj.f["type"] = PyStr("line")
    /\ OnPixel(PyAdd(obj.f["left"], obj.f["x1"]), canvas_width, coords[1])
    /\ OnPixel(PyAdd(obj.f["top"], obj.f["y1"]), canvas_height, coords[2])
    /\ OnPixel(PyAdd(obj.f["left"], obj.f["x2"]), canvas_width, coords[3])
    /\ OnPixel(PyAdd(obj.f["top"], obj.f["y2"]), canvas_height, coords[4])
    /\ Num(PyAdd(obj.f["x1"], obj.f["x2"])) = 0
    /\ Num(PyAdd(obj.f["y1"], obj.f["y2"])) = 0

\* obj is an object made from the coordinates of the annotation
SynthesizedFrom(obj, ann_dict, canvas_width, canvas_height) ==
    IF ann_dict.f["type"] = PyStr("rect")
    THEN RectOf(obj, ann_dict.f["rel_coords"].items, canvas_width,
                canvas_height)
    ELSE IF ann_dict.f["type"] = PyStr("line")
    THEN LineOf(obj, ann_dict.f["rel_coords"].items, canvas_width,
                canvas_height)
    ELSE obj.f["type"] = PyStr("path")

\* the objects are one per annotation, in the order of the annotations: the
\* Fabric.js object of an annotation that carries one, a synthesized one for
\* an annotation that carries none
OnePerAnnotation(objects, annotations, canvas_width, canvas_height) ==
    /\ Len(objects) = Len(annotations)
    /\ \A i \in DOMAIN annotations :
         i \in DOMAIN objects =>
           IF ProvenanceOf(annotations[i]) # None
           THEN objects[i] = ProvenanceOf(annotations[i])
           ELSE SynthesizedFrom(objects[i], annotations[i], canvas_width,
                                canvas_height)

(* C29: create_initial_drawing returns a scene that has one object per      *)
(* stored annotation, in stored order: for an annotation that carries a    *)
(* _fabric_obj that very object, unchanged, and only for one without it an *)
(* object made from the coordinates (a rect with left and top at the first *)
(* corner, width x2 - x1 and height y2 - y1; a line centred at the         *)
(* midpoint with the end points as offsets from it).                       *)
C29_OneObjectPerAnnotation ==
    DrawingApplied =>
      /\ rets[1].raised = "none"
      /\ OnePerAnnotation(rets[1].obj.f["objects"].items,
                          call.args.annotations, call.args.canvas_width,
                          call.args.canvas_height)

\* an annotation of the data model: a rect, line or polygon whose
\* coordinates validate_rel_coords accepts
WellFormed(ann_dict) ==
    /\ HasKey(ann_dict, "type")
    /\ HasKey(ann_dict, "rel_coords")
    /\ ann_dict.f["type"] \in {PyStr(t) : t \in VALID_ANNOTATION_TYPES}
    /\ validate_rel_coords(ann_dict.f["type"].s, ann_dict.f["rel_coords"]).valid

\* the scene of annotations that are all well formed does have one object
\* per annotation
DrawingOfWellFormed ==
    (/\ DrawingApplied
     /\ \A i \in DOMAIN call.args.annotations :
          WellFormed(call.args.annotations[i]))
      => C29_OneObjectPerAnnotation

\* a drawn rect that carries its object, followed by an imported line
DrawingOfWellFormedReached ==
    /\ DrawingApplied
    /\ Len(call.args.annotations) = 2
    /\ ProvenanceOf(call.args.annotations[1]) # None
    /\ call.args.annotations[2].f["type"] = PyStr("line")
    /\ ProvenanceOf(call.args.annotations[2]) = None
    /\ call.args.canvas_width = 711
    /\ Len(rets[1].obj.f["objects"].items) = 2

---------------------------------------------------------------------------
(* Properties of _relative_to_fabric followed by _fabric_to_relative *)

\* _relative_to_fabric was applied to a valid annotation
Synthesized ==
    /\ call.fn = "_relative_to_fabric"
    /\ rets # <<>>

\* and _fabric_to_relative to what it returned
RoundTripped ==
    /\ call.fn = "_relative_to_fabric"
    /\ Len(rets) = 2

\* the relative coordinate r is v rounded to the pixels of a side
OnGrid(r, size, v) ==
    /\ r.k \in {"int", "float"}
    /\ OnPixel(PyMul(r, PyInt(size)), size, v)

\* the pairs came back as many as they were stored, each on the pixel grid
SamePoints(back, stored, canvas_width, canvas_height) ==
    /\ Len(back) = Len(stored)
    /\ \A i \in DOMAIN stored :
         i \in DOMAIN back =>
           /\ Len(back[i].items) = 2
           /\ OnGrid(back[i].items[1], canvas_width, stored[i].items[1])
           /\ OnGrid(back[i].items[2], canvas_height, stored[i].items[2])

\* the four coordinates came back, each on the pixel grid
SameFour(back, stored, canvas_width, canvas_height) ==
    /\ Len(back) = 4
    /\ OnGrid(back[1], canvas_width, stored[1])
    /\ OnGrid(back[2], canvas_height, stored[2])
    /\ OnGrid(back[3], canvas_width, stored[3])
    /\ OnGrid(back[4], canvas_height, stored[4])

(* C30: for a valid annotation without _fabric_obj, _relative_to_fabric     *)
(* returns an object, and _fabric_to_relative on that object and the same  *)
(* canvas size returns an annotation of the same type with as many         *)
(* coordinates or vertices as were stored, each the stored value rounded   *)
(* to the pixel grid of the canvas: a polygon of n vertices comes back     *)
(* with n vertices.                                                        *)
C30_AdapterRoundTrip ==
    /\ Synthesized => (rets[1].raised = "none" /\ rets[1].obj # NoObject)
    /\ RoundTripped =>
         /\ rets[2] # NoObject
         /\ rets[2].type = call.args.annotation.f["type"]
         /\ IF call.args.annotation.f["type"] = PyStr("polygon")
            THEN SamePoints(rets[2].rel_coords.items,
                            call.args.annotation.f["rel_coords"].items,
                            call.args.canvas_width, call.args.canvas_height)
            ELSE SameFour(rets[2].rel_coords.items,
                          call.args.annotation.f["rel_coords"].items,
                          call.args.canvas_width, call.args.canvas_height)

\* rects and lines do come back as the claim says
FlatRoundTrip ==
    (Synthesized /\ call.args.annotation.f["type"] # PyStr("polygon"))
      => C30_AdapterRoundTrip

\* a polygon of n vertices comes back with n + 1: the n stored ones on the
\* pixel grid and the first of them once more
ClosedPolygonRoundTrip ==
    (RoundTripped /\ call.args.annotation.f["type"] = PyStr("polygon")) =>
      /\ rets[2] # NoObject
      /\ rets[2].type = PyStr("polygon")
      /\ Len(rets[2].rel_coords.items) =
           Len(call.args.annotation.f["rel_coords"].items) + 1
      /\ SamePoints(SubSeq(rets[2].rel_coords.items, 1,
                           Len(call.args.annotation.f["rel_coords"].items)),
                    call.args.annotation.f["rel_coords"].items,
                    call.args.canvas_width, call.args.canvas_height)
      /\ rets[2].rel_coords.items[Len(rets[2].rel_coords.items)] =
           rets[2].rel_coords.items[1]
====
